---- MODULE Spec2Model ----
(***************************************************************************)
(* Model of GDBExporter (export_gdb.py) and of the mapping tables          *)
(* (field_mappings.py): provisioning of the job geodatabase from the       *)
(* template, the decode cache for ValueRelation fields, and the eight      *)
(* layer exports with their field mapping, override rules and append.      *)
(***************************************************************************)
EXTENDS Integers, Sequences, FiniteSets, TLC

VARIABLES project, job_id, driver, fs, outcomes, last, appended, replaced, run, probe

vars == <<project, job_id, driver, fs, outcomes, last, appended, replaced, run, probe>>

(***************************************************************************)
(* Python values: None, int and str.  A record of one shape so that any    *)
(* two values can be compared.                                             *)
(***************************************************************************)
None == [t |-> "none", i |-> 0, s |-> ""]
IntV(n) == [t |-> "int", i |-> n, s |-> ""]
StrV(x) == [t |-> "str", i |-> 0, s |-> x]

\* bool(v): None, 0 and '' are false
Truthy(v) == CASE v.t = "none" -> FALSE
               [] v.t = "int" -> v.i # 0
               [] OTHER -> v.s # ""

\* str(v)
PyStr(v) == CASE v.t = "none" -> "None"
              [] v.t = "int" -> ToString(v.i)
              [] OTHER -> v.s

UpperChars == "ABCDEFGHIJKLMNOPQRSTUVWXYZ"
LowerChars == "abcdefghijklmnopqrstuvwxyz"

CharAt(s, i) == SubSeq(s, i, i)

\* the letters of from, each with the letter of to at its place
CaseTable(from, to) ==
    [c \in {CharAt(from, k) : k \in 1..Len(from)} |->
        CharAt(to, CHOOSE k \in 1..Len(from) : CharAt(from, k) = c)]

ToLower == CaseTable(UpperChars, LowerChars)
ToUpper == CaseTable(LowerChars, UpperChars)

MapChar(c, table) == IF c \in DOMAIN table THEN table[c] ELSE c

RECURSIVE MapChars(_, _)
MapChars(s, table) ==
    IF s = "" THEN ""
    ELSE MapChar(CharAt(s, 1), table) \o MapChars(SubSeq(s, 2, Len(s)), table)

\* str.lower() and str.upper()
Lower(s) == MapChars(s, ToLower)
Upper(s) == MapChars(s, ToUpper)

\* sub in s
Contains(sub, s) ==
    \E k \in 1..(Len(s) - Len(sub) + 1) : SubSeq(s, k, k + Len(sub) - 1) = sub

(***************************************************************************)
(* field_mappings.py: each table in declaration order, <<source, gdb>>.    *)
(***************************************************************************)
PUNKT_TO_COM_DOKU_PUNKT ==
    << <<"id", "ID">>, <<"ART", "ART">>, <<"BA_BEZ_COM", "BA_BEZ_COM">>,
       <<"BAUJAHR", "BAUJAHR">>, <<"EIGENTUM", "EIGENTUM">>, <<"ZV", "ZWECKVERBAND">>,
       <<"FOERDERUNG", "FOERDERUNG">>, <<"FOERD_VERS", "GIS_NB_VERSION">>,
       <<"QUELLE", "ERSTELLER">>, <<"LQ", "LAGEQUALITAET">>,
       <<"BEMERKUNG", "BEMERKUNG">>, <<"GEBIET_ID", "GEBIET_ID">> >>

ROHRMUFFE_TO_COM_DOKU_PUNKT ==
    << <<"id", "ID">>, <<"ART", "ART">>, <<"BAUJAHR", "BAUJAHR">>,
       <<"BEMERKUNG", "BEMERKUNG">>, <<"KLASSE", "KLASSE">>, <<"GEBIET_ID", "GEBIET_ID">> >>

MESSPUNKT_TO_COM_DOKU_PUNKT ==
    << <<"id", "ID">>, <<"ART", "ART">>, <<"BEMERKUNG", "BEMERKUNG">>,
       <<"VERL_TIEF", "VERLEGETIEFE">>, <<"DATEIPFAD", "DATEIPFAD">>,
       <<"KLASSE", "KLASSE">>, <<"DATUM_EINSPIELUNG", "DATUM_EINSPIELUNG">>,
       <<"GEBIET_ID", "GEBIET_ID">> >>

BAUTEN_TO_COM_DOKU_PUNKT ==
    << <<"id", "ID">>, <<"ART", "ART">>, <<"BEZEICHNER", "BEZEICHNUNG">>,
       <<"BA_BEZ_COM", "BA_BEZ_COM">>, <<"BAUJAHR", "BAUJAHR">>, <<"EIGENTUM", "EIGENTUM">>,
       <<"ZWECKVERBAND", "ZWECKVERBAND">>, <<"FOERDERUNG", "FOERDERUNG">>,
       <<"FOERD_VERS", "GIS_NB_VERSION">>, <<"QUELLE", "ERSTELLER">>,
       <<"LAGEQUALITAET", "LAGEQUALITAET">>, <<"BEMERKUNG", "BEMERKUNG">>,
       <<"KLASSE", "KLASSE">>, <<"X_WGS", "X_COORD">>, <<"Y_WGS", "Y_COORD">>,
       <<"GEBIET_ID", "GEBIET_ID">> >>

NETZTECHNIK_TO_COM_DOKU_PUNKT ==
    << <<"id", "ID">>, <<"ART", "ART">>, <<"BEZEICHNER", "BEZEICHNUNG">>,
       <<"BA_BEZ_COM", "BA_BEZ_COM">>, <<"BAUJAHR", "BAUJAHR">>, <<"EIGENTUM", "EIGENTUM">>,
       <<"ZWECKVERBAND", "ZWECKVERBAND">>, <<"FOERDERUNG", "FOERDERUNG">>,
       <<"FOERD_VERS", "GIS_NB_VERSION">>, <<"QUELLE", "ERSTELLER">>,
       <<"LAGEQUALITAET", "LAGEQUALITAET">>, <<"BEMERKUNG", "BEMERKUNG">>,
       <<"KLASSE", "KLASSE">>, <<"GEBIET_ID", "GEBIET_ID">> >>

ENDVERBRAUCHER_TO_COM_DOKU_PUNKT ==
    << <<"id", "ID">>, <<"KUNDENTYP", "KUNDENTYP">>, <<"KLASSE", "KLASSE">>,
       <<"GEBIET_ID", "GEBIET_ID">> >>

LEERROHRE_TO_COM_DOKU_ROHR ==
    << <<"id", "ID">>, <<"TYP", "TYP">>, <<"LR_RESERV", "LR_ANZ_FREI">>,
       <<"EIGENTUM", "EIGENTUM">>, <<"LR_HERST", "LR_HERST">>,
       <<"LR_VERLMET", "LR_VERL_METHODE">>, <<"ID_EINZUG", "ID_EINZUG">>,
       <<"LABEL", "LABEL">>, <<"BAUJAHR", "BAUJAHR">>, <<"ZV", "ZWECKVERBAND">>,
       <<"QUELLE", "ERSTELLER">>, <<"FOERDERUNG", "FOERDERUNG">>,
       <<"FOERD_VERS", "GIS_NB_VERSION">>, <<"LQ", "LAGEQUALITAET">>,
       <<"BEMERKUNG", "BEMERKUNG">>, <<"GEBIET_ID", "GEBIET_ID">>, <<"ROHR_ID", "ROHR_ID">> >>

VERBINDUNGEN_TO_COM_DOKU_KABEL ==
    << <<"id", "ID">>, <<"VERB_ART", "ART">>, <<"LAE_KABEL", "LAENGE">>, <<"TYP", "TYP">>,
       <<"ID_EINZUG", "ID_EINZUG">>, <<"LABEL", "LABEL">>, <<"BAUJAHR", "BAUJAHR">>,
       <<"EIGENTUM", "EIGENTUM">>, <<"ZWECKVERBAND", "ZWECKVERBAND">>,
       <<"FOERDERUNG", "FOERDERUNG">>, <<"FOERD_VERS", "GIS_NB_VERSION">>,
       <<"QUELLE", "ERSTELLER">>, <<"LQ", "LAGEQUALITAET">>, <<"BEMERKUNG", "BEMERKUNG">>,
       <<"GEBIET_ID", "GEBIET_ID">>, <<"KABEL_ID", "KABEL_ID">> >>

TEMPLATE_GDB_NAME == "GIS_Nebenstimungen_501_geodatabase.gdb"

GDB_FEATURE_CLASSES ==
    [punkt |-> "COM_DOKU_PUNKT", kabel |-> "COM_DOKU_KABEL",
     rohr |-> "COM_DOKU_ROHR", rel_kabel_rohr |-> "REL_KABEL_ROHR"]

(***************************************************************************)
(* Results of Python calls: a returned value or a raised exception.        *)
(***************************************************************************)
Return(v) == [ok |-> TRUE, val |-> v, err |-> ""]
Raise(e) == [ok |-> FALSE, val |-> None, err |-> e]

\* str(KeyError(name))
KeyError(name) == "'" \o name \o "'"

(***************************************************************************)
(* The eight exports differ in the layer they look for, their mapping      *)
(* table, their feature class and their special logic.                     *)
(***************************************************************************)
Kinds == {"punkt", "rohrmuffe", "messpunkt", "bauten", "netztechnik",
          "endverbraucher", "leerrohre", "verbindungen"}

FieldMapping(kind) ==
    CASE kind = "punkt" -> PUNKT_TO_COM_DOKU_PUNKT
      [] kind = "rohrmuffe" -> ROHRMUFFE_TO_COM_DOKU_PUNKT
      [] kind = "messpunkt" -> MESSPUNKT_TO_COM_DOKU_PUNKT
      [] kind = "bauten" -> BAUTEN_TO_COM_DOKU_PUNKT
      [] kind = "netztechnik" -> NETZTECHNIK_TO_COM_DOKU_PUNKT
      [] kind = "endverbraucher" -> ENDVERBRAUCHER_TO_COM_DOKU_PUNKT
      [] kind = "leerrohre" -> LEERROHRE_TO_COM_DOKU_ROHR
      [] OTHER -> VERBINDUNGEN_TO_COM_DOKU_KABEL

\* the name the layer is searched by
LayerKey(kind) ==
    CASE kind = "punkt" -> "PUNKT"
      [] kind = "rohrmuffe" -> "ROHRMUFFE"
      [] kind = "messpunkt" -> "MESSPUNKT"
      [] kind = "bauten" -> "BAUTEN"
      [] kind = "netztechnik" -> "NETZTECHNIK"
      [] kind = "endverbraucher" -> "ENDVERBRAUCHER"
      [] kind = "leerrohre" -> "leerrohr"
      [] OTHER -> "verbindung"

\* layer.name().upper() == 'PUNKT'   /   'leerrohr' in layer.name().lower()
NameMatches(kind, name) ==
    IF kind \in {"leerrohre", "verbindungen"}
    THEN Contains(LayerKey(kind), Lower(name))
    ELSE Upper(name) = LayerKey(kind)

\* the 'layer' entry of the outcome; the source writes an arrow where -> stands
Label(kind) ==
    CASE kind = "leerrohre" -> "Leerrohre->GDB"
      [] kind = "verbindungen" -> "Verbindungen->GDB"
      [] OTHER -> LayerKey(kind) \o "->GDB"

NotFoundError(kind) ==
    CASE kind = "leerrohre" -> "Leerrohre layer not found"
      [] kind = "verbindungen" -> "Verbindungen layer not found"
      [] OTHER -> LayerKey(kind) \o " layer not found"

\* every export writing to the point feature class
FcName_Punkt(kind) == GDB_FEATURE_CLASSES.punkt

\* fc_name = GDB_FEATURE_CLASSES[...]
FcName(kind) ==
    CASE kind = "leerrohre" -> GDB_FEATURE_CLASSES.rohr
      [] kind = "verbindungen" -> GDB_FEATURE_CLASSES.kabel
      [] OTHER -> GDB_FEATURE_CLASSES.punkt

(***************************************************************************)
(* Layers.  A layer is [none, id, name, valid, fields, widget, features]; a *)
(* field is [name, type, typeName, length, precision]; a feature is        *)
(* [geom, attrs] with attrs a function on the layer's field names.         *)
(***************************************************************************)
FieldNames(fields) == {fields[k].name : k \in 1..Len(fields)}

\* target_layer = None
NoLayer == [none |-> TRUE, id |-> "", name |-> "", valid |-> FALSE, fields |-> <<>>,
            widget |-> <<>>, features |-> <<>>]

\* the first of the layers at the indexes ks, or None: the loop breaks at it
FirstOf(proj, ks) ==
    IF ks = {} THEN NoLayer ELSE proj[CHOOSE k \in ks : \A m \in ks : k <= m]

\* the first layer of the project the search accepts
FindLayer(kind, proj) ==
    FirstOf(proj, {k \in 1..Len(proj) : NameMatches(kind, proj[k].name)})

\* the related layer of a ValueRelation: by id or by name, first match
FindRelated(related_layer_name, proj) ==
    FirstOf(proj, {k \in 1..Len(proj) : proj[k].id = related_layer_name
                                         \/ proj[k].name = related_layer_name})

\* feat[name]
GetAttr(feat, name) ==
    IF name \in DOMAIN feat.attrs THEN Return(feat.attrs[name]) ELSE Raise(KeyError(name))

\* the loop that keeps the first value of a key instead of the last
RECURSIVE BuildLookup_FirstWins(_, _, _, _)
BuildLookup_FirstWins(feats, key_field, value_field, n) ==
    IF n = 0 THEN Return(<<>>)
    ELSE LET before == BuildLookup_FirstWins(feats, key_field, value_field, n - 1)
             key == GetAttr(feats[n], key_field)
             value == GetAttr(feats[n], value_field)
         IN  IF ~before.ok THEN before
             ELSE IF ~key.ok THEN key
             ELSE IF ~value.ok THEN value
             ELSE Return([k \in (DOMAIN before.val) \cup {PyStr(key.val)} |->
                            IF k \in DOMAIN before.val THEN before.val[k] ELSE value.val])

\* the loop of build_lookup_cache over the related layer's first n features
RECURSIVE BuildLookup(_, _, _, _)
BuildLookup(feats, key_field, value_field, n) ==
    IF n = 0 THEN Return(<<>>)
    ELSE LET before == BuildLookup(feats, key_field, value_field, n - 1)
             key == GetAttr(feats[n], key_field)
             value == GetAttr(feats[n], value_field)
         IN  IF ~before.ok THEN before
             ELSE IF ~key.ok THEN key
             ELSE IF ~value.ok THEN value
             ELSE Return([k \in (DOMAIN before.val) \cup {PyStr(key.val)} |->
                            IF k = PyStr(key.val) THEN value.val ELSE before.val[k]])

IsValueRelation(layer, name) == layer.widget[name].type = "ValueRelation"

\* the fields of the layer that get a lookup table
CachedFields(layer, proj) ==
    {name \in FieldNames(layer.fields) :
        /\ IsValueRelation(layer, name)
        /\ ~FindRelated(layer.widget[name].config.Layer, proj).none}

LookupOf(layer, name, proj) ==
    LET config == layer.widget[name].config
        related_layer == FindRelated(config.Layer, proj)
    IN  BuildLookup(related_layer.features, config.Key, config.Value,
                    Len(related_layer.features))

\* build_lookup_cache that raises where the related layer is not in the project
build_lookup_cache_Strict(layer, proj) ==
    IF \E name \in FieldNames(layer.fields) :
           /\ IsValueRelation(layer, name)
           /\ FindRelated(layer.widget[name].config.Layer, proj).none
    THEN Raise("related layer not found")
    ELSE Return([name \in CachedFields(layer, proj) |-> LookupOf(layer, name, proj).val])

build_lookup_cache(layer, proj) ==
    LET names == CachedFields(layer, proj)
    IN  IF \E name \in names : ~LookupOf(layer, name, proj).ok
        THEN Raise((LookupOf(layer, CHOOSE name \in names :
                                ~LookupOf(layer, name, proj).ok, proj)).err)
        ELSE Return([name \in names |-> LookupOf(layer, name, proj).val])

\* get_display_value without the cache: the raw value
get_display_value_Raw(feature, field_name, cache) == GetAttr(feature, field_name)

\* get_display_value with cache[field_name].get(str(raw_value)): no default
get_display_value_NoDefault(feature, field_name, cache) ==
    LET raw_value == GetAttr(feature, field_name)
    IN  IF ~raw_value.ok THEN raw_value
        ELSE IF field_name \in DOMAIN cache /\ raw_value.val # None
        THEN Return(IF PyStr(raw_value.val) \in DOMAIN cache[field_name]
                    THEN cache[field_name][PyStr(raw_value.val)]
                    ELSE None)
        ELSE raw_value

get_display_value(feature, field_name, cache) ==
    LET raw_value == GetAttr(feature, field_name)
    IN  IF ~raw_value.ok THEN raw_value
        ELSE IF field_name \in DOMAIN cache /\ raw_value.val # None
        THEN Return(IF PyStr(raw_value.val) \in DOMAIN cache[field_name]
                    THEN cache[field_name][PyStr(raw_value.val)]
                    ELSE raw_value.val)
        ELSE raw_value

(***************************************************************************)
(* The output fields of the memory layer and the staging of one feature.   *)
(***************************************************************************)
StringLength == 254

QgsField(name, type, typeName, length, precision) ==
    [name |-> name, type |-> type, typeName |-> typeName,
     length |-> length, precision |-> precision]

FieldByName(layer, name) ==
    layer.fields[CHOOSE k \in 1..Len(layer.fields) : layer.fields[k].name = name]

\* output_fields built with every field keeping the type of its source field
RECURSIVE MappedFields_CopyType(_, _, _)
MappedFields_CopyType(mapping, layer, n) ==
    IF n = 0 THEN <<>>
    ELSE IF mapping[n][1] \in FieldNames(layer.fields)
    THEN Append(MappedFields_CopyType(mapping, layer, n - 1),
                [FieldByName(layer, mapping[n][1]) EXCEPT !.name = mapping[n][2]])
    ELSE MappedFields_CopyType(mapping, layer, n - 1)

\* the loop that builds output_fields, over the first n entries of the table
RECURSIVE MappedFields(_, _, _)
MappedFields(mapping, layer, n) ==
    IF n = 0 THEN <<>>
    ELSE LET qgis_field_name == mapping[n][1]
             gdb_field_name == mapping[n][2]
             before == MappedFields(mapping, layer, n - 1)
         IN  IF qgis_field_name \in FieldNames(layer.fields)
             THEN Append(before,
                    IF IsValueRelation(layer, qgis_field_name)
                    THEN QgsField(gdb_field_name, "String", "String", StringLength, 0)
                    ELSE LET original_field == FieldByName(layer, qgis_field_name)
                         IN  QgsField(gdb_field_name, original_field.type,
                                      original_field.typeName, original_field.length,
                                      original_field.precision))
             ELSE before

\* Leerrohre and Verbindungen add LR_FARBE after the mapped fields
OutputFields(kind, layer) ==
    LET mapped == MappedFields(FieldMapping(kind), layer, Len(FieldMapping(kind)))
    IN  IF kind \in {"leerrohre", "verbindungen"}
        THEN Append(mapped, QgsField("LR_FARBE", "String", "String", StringLength, 0))
        ELSE mapped

\* new_feature = QgsFeature(mem_layer.fields()); setGeometry(...)
NewFeature(qgis_feature, names) ==
    [geom |-> qgis_feature.geom, attrs |-> [name \in names |-> None]]

\* new_feature[name] = value
SetAttr(feat, name, value) ==
    IF name \in DOMAIN feat.attrs
    THEN Return([feat EXCEPT !.attrs[name] = value])
    ELSE Raise(KeyError(name))

\* try: ... except: pass
Try(result, otherwise) == IF result.ok THEN result.val ELSE otherwise

\* one entry of the mapping writing '' for a null:
\* new_feature[gdb_field_name] = value or ''
MapField_Blank(new_feature, gdb_field_name, value) ==
    IF value.ok
    THEN Try(SetAttr(new_feature, gdb_field_name,
                     IF value.val = None THEN StrV("") ELSE value.val), new_feature)
    ELSE new_feature

\* one entry of the mapping loop, given what get_display_value returned or raised:
\* if value is not None: new_feature[gdb_field_name] = value
MapField(new_feature, gdb_field_name, value) ==
    IF value.ok /\ value.val # None
    THEN Try(SetAttr(new_feature, gdb_field_name, value.val), new_feature)
    ELSE new_feature

\* the mapping loop over the first n entries of the table
RECURSIVE MapFields(_, _, _, _, _)
MapFields(mapping, qgis_feature, new_feature, cache, n) ==
    IF n = 0 THEN new_feature
    ELSE MapField(MapFields(mapping, qgis_feature, new_feature, cache, n - 1),
                  mapping[n][2],
                  get_display_value(qgis_feature, mapping[n][1], cache))

Sentinels == {"Sonstige", "Sonstiges"}

\* the ART logic left out
ArtRule_NoOverride(qgis_feature, new_feature) ==
    LET art_value == GetAttr(new_feature, "ART")
    IN  IF ~art_value.ok THEN art_value ELSE Return(new_feature)

\* the ART logic with the markers compared without regard to case
ArtRule_IgnoreCase(qgis_feature, new_feature) ==
    LET art_value == GetAttr(new_feature, "ART")
        art_sonst == GetAttr(qgis_feature, "ART_SONST")
    IN  IF ~art_value.ok THEN art_value
        ELSE IF Truthy(art_value.val) /\ art_value.val.t = "str"
                /\ Lower(art_value.val.s) \in {"sonstige", "sonstiges"}
        THEN IF ~art_sonst.ok THEN art_sonst
             ELSE IF Truthy(art_sonst.val)
             THEN SetAttr(new_feature, "ART", art_sonst.val)
             ELSE Return(new_feature)
        ELSE Return(new_feature)

\* BAUTEN and NETZTECHNIK: if ART is 'Sonstiges'/'Sonstige', use ART_SONST
ArtRule(qgis_feature, new_feature) ==
    LET art_value == GetAttr(new_feature, "ART")
        art_sonst == GetAttr(qgis_feature, "ART_SONST")
    IN  IF ~art_value.ok THEN art_value
        ELSE IF Truthy(art_value.val) /\ art_value.val.t = "str"
                /\ art_value.val.s \in Sentinels
        THEN IF ~art_sonst.ok THEN art_sonst
             ELSE IF Truthy(art_sonst.val)
             THEN SetAttr(new_feature, "ART", art_sonst.val)
             ELSE Return(new_feature)
        ELSE Return(new_feature)

\* a colour with its free text: the decoded colour, or the free text when the
\* colour is Sonstige/Sonstiges
FarbValue(qgis_feature, cache, farb, farb_son) ==
    LET lr_farbe_value == get_display_value(qgis_feature, farb, cache)
    IN  IF ~lr_farbe_value.ok THEN lr_farbe_value
        ELSE IF Truthy(lr_farbe_value.val) /\ PyStr(lr_farbe_value.val) \in Sentinels
        THEN GetAttr(qgis_feature, farb_son)
        ELSE lr_farbe_value

\* LR_FARBE from TYP with the keywords compared to TYP as written (no lower())
LrFarbeByTyp_CaseSensitive(qgis_feature, cache) ==
    LET typ_value == get_display_value(qgis_feature, "TYP", cache)
    IN  IF ~typ_value.ok THEN typ_value
        ELSE IF Truthy(typ_value.val)
        THEN LET typ_str == PyStr(typ_value.val)
             IN  IF Contains("schutzrohr", typ_str) \/ Contains("rohrverband", typ_str)
                 THEN FarbValue(qgis_feature, cache, "M_FARB", "M_FARB_SON")
                 ELSE IF Contains("einzelrohr", typ_str)
                 THEN FarbValue(qgis_feature, cache, "ER_FARB", "ER_FARB_SON")
                 ELSE Return(None)
        ELSE Return(None)

\* LR_FARBE from TYP with the test for 'einzelrohr' made first
LrFarbeByTyp_EinzelrohrFirst(qgis_feature, cache) ==
    LET typ_value == get_display_value(qgis_feature, "TYP", cache)
    IN  IF ~typ_value.ok THEN typ_value
        ELSE IF Truthy(typ_value.val)
        THEN LET typ_str == Lower(PyStr(typ_value.val))
             IN  IF Contains("einzelrohr", typ_str)
                 THEN FarbValue(qgis_feature, cache, "ER_FARB", "ER_FARB_SON")
                 ELSE IF Contains("schutzrohr", typ_str) \/ Contains("rohrverband", typ_str)
                 THEN FarbValue(qgis_feature, cache, "M_FARB", "M_FARB_SON")
                 ELSE Return(None)
        ELSE Return(None)

\* Leerrohre: LR_FARBE from TYP
LrFarbeByTyp(qgis_feature, cache) ==
    LET typ_value == get_display_value(qgis_feature, "TYP", cache)
    IN  IF ~typ_value.ok THEN typ_value
        ELSE IF Truthy(typ_value.val)
        THEN LET typ_str == Lower(PyStr(typ_value.val))
             IN  IF Contains("schutzrohr", typ_str) \/ Contains("rohrverband", typ_str)
                 THEN FarbValue(qgis_feature, cache, "M_FARB", "M_FARB_SON")
                 ELSE IF Contains("einzelrohr", typ_str)
                 THEN FarbValue(qgis_feature, cache, "ER_FARB", "ER_FARB_SON")
                 ELSE Return(None)
        ELSE Return(None)

\* LR_HERST (Leerrohre) and ART (Verbindungen): guarded read of the mapped
\* value, then the free text is assigned
FreeTextRule(qgis_feature, new_feature, target, free_text) ==
    LET value == IF target \in DOMAIN new_feature.attrs
                 THEN new_feature.attrs[target] ELSE None
        replacement == GetAttr(qgis_feature, free_text)
    IN  IF Truthy(value) /\ PyStr(value) \in Sentinels
        THEN IF ~replacement.ok THEN replacement
             ELSE SetAttr(new_feature, target, replacement.val)
        ELSE Return(new_feature)

\* if lr_farbe_value: new_feature['LR_FARBE'] = lr_farbe_value
SetLrFarbe(new_feature, lr_farbe_value) ==
    IF Truthy(lr_farbe_value)
    THEN SetAttr(new_feature, "LR_FARBE", lr_farbe_value)
    ELSE Return(new_feature)

\* Leerrohre: LR_FARBE is computed first, then LR_HERST, then LR_FARBE is set
LeerrohreLogic(lr_farbe_value, herst) ==
    IF ~lr_farbe_value.ok THEN lr_farbe_value
    ELSE IF ~herst.ok THEN herst
    ELSE SetLrFarbe(herst.val, lr_farbe_value.val)

\* Verbindungen: ART first, then LR_FARBE is computed and set
VerbindungenLogic(art, lr_farbe_value) ==
    IF ~art.ok THEN art
    ELSE IF ~lr_farbe_value.ok THEN lr_farbe_value
    ELSE SetLrFarbe(art.val, lr_farbe_value.val)

\* the special logic of an export on a feature whose fields are mapped
SpecialLogic(kind, qgis_feature, new_feature, cache) ==
    CASE kind \in {"bauten", "netztechnik"} -> ArtRule(qgis_feature, new_feature)
      [] kind = "leerrohre" ->
            LeerrohreLogic(LrFarbeByTyp(qgis_feature, cache),
                           FreeTextRule(qgis_feature, new_feature, "LR_HERST", "LR_HER_SON"))
      [] kind = "verbindungen" ->
            VerbindungenLogic(FreeTextRule(qgis_feature, new_feature, "ART", "V_A_SONST"),
                              FarbValue(qgis_feature, cache, "ER_FARB", "ER_FARB_SON"))
      [] OTHER -> Return(new_feature)

\* the body of the feature loop of one export: the staged feature, or the
\* exception that leaves the loop
StageFeature(kind, qgis_feature, names, cache) ==
    SpecialLogic(kind, qgis_feature,
                 MapFields(FieldMapping(kind), qgis_feature, NewFeature(qgis_feature, names),
                           cache, Len(FieldMapping(kind))),
                 cache)

(***************************************************************************)
(* The file system and the geodatabase.  A store is [exists, fcs]; fcs     *)
(* maps a feature class name to [schema, records].                         *)
(***************************************************************************)
NoStore == [exists |-> FALSE, fcs |-> <<>>]

plugin_dir == "plugin"
output_folder == "out"

\* os.path.join
PathJoin(a, b) == a \o "/" \o b

template_gdb_path == PathJoin(plugin_dir, TEMPLATE_GDB_NAME)

\* f'Job_{job_id}.gdb' under the output folder
OutputGdbPath(folder, job) == PathJoin(folder, "Job_" \o ToString(job) \o ".gdb")

\* copy_template_gdb that keeps a geodatabase it finds at the path
copy_template_gdb_Keep(fsys, folder, job) ==
    LET output_gdb_path == OutputGdbPath(folder, job)
    IN  IF fsys[output_gdb_path].exists THEN fsys
        ELSE [fsys EXCEPT ![output_gdb_path] = fsys[template_gdb_path]]

\* shutil.rmtree, then shutil.copytree of the template
copy_template_gdb(fsys, folder, job) ==
    LET output_gdb_path == OutputGdbPath(folder, job)
        removed == IF fsys[output_gdb_path].exists
                   THEN [fsys EXCEPT ![output_gdb_path] = NoStore]
                   ELSE fsys
    IN  [removed EXCEPT ![output_gdb_path] = removed[template_gdb_path]]

\* the append that adds the fields the layer lacks
actionOnExistingFile_AddFields == "AppendToLayerAddFields"

\* options.actionOnExistingFile
actionOnExistingFile == "AppendToLayerNoNewFields"

\* QgsVectorFileWriter.WriterError, by name
NoError == "NoError"
ErrCreateDataSource == "ErrCreateDataSource"
ErrFeatureWriteFailed == "ErrFeatureWriteFailed"

\* one memory-layer feature as a record of a feature class with the given schema
DestRecord(feature, schema) ==
    [geom |-> feature.geom,
     attrs |-> [name \in schema |->
                  IF name \in DOMAIN feature.attrs THEN feature.attrs[name] ELSE None]]

\* QgsVectorFileWriter.writeAsVectorFormatV3 on an existing geodatabase layer
writeAsVectorFormatV3(features, names, gdb_path, layerName, action, fsys, failing) ==
    IF ~fsys[gdb_path].exists \/ layerName \notin DOMAIN fsys[gdb_path].fcs
    THEN [code |-> ErrCreateDataSource, msg |-> "cannot open " \o layerName, fs |-> fsys]
    ELSE IF layerName \in failing
    THEN [code |-> ErrFeatureWriteFailed, msg |-> "feature write failed", fs |-> fsys]
    ELSE LET fc == fsys[gdb_path].fcs[layerName]
             schema == IF action = "AppendToLayerNoNewFields"
                       THEN fc.schema ELSE fc.schema \cup names
             kept == [k \in 1..Len(fc.records) |-> DestRecord(fc.records[k], schema)]
             added == [k \in 1..Len(features) |-> DestRecord(features[k], schema)]
         IN  [code |-> NoError, msg |-> "",
              fs |-> [fsys EXCEPT ![gdb_path].fcs[layerName] =
                         [schema |-> schema, records |-> kept \o added]]]

(***************************************************************************)
(* One export call.                                                        *)
(***************************************************************************)
Success(kind, count, gdb_path) ==
    [layer |-> Label(kind), success |-> TRUE, keys |-> {"layer", "count", "file", "success"},
     count |-> count, file |-> gdb_path \o "\\" \o FcName(kind), error |-> ""]

Failure(kind, error) ==
    [layer |-> Label(kind), success |-> FALSE, keys |-> {"layer", "success", "error"},
     count |-> 0, file |-> "", error |-> error]

\* target_layer.getFeatures(request) with the filter job_id = {job_id}
JobFeatures(layer, job) ==
    SelectSeq(layer.features,
              LAMBDA f : "job_id" \in DOMAIN f.attrs /\ f.attrs["job_id"] = IntV(job))

\* the turn of the feature loop an exception leaves it at; past the end if none
LoopEnd(results) ==
    IF \A k \in 1..Len(results) : results[k].ok THEN Len(results) + 1
    ELSE CHOOSE k \in 1..Len(results) :
            ~results[k].ok /\ \A m \in 1..(k - 1) : results[m].ok

\* a loop that adds each feature in front of the ones added before it
LoopUntil_Reversed(results, stop) ==
    [ok |-> stop > Len(results),
     err |-> IF stop > Len(results) THEN "" ELSE results[stop].err,
     staged |-> [k \in 1..(stop - 1) |-> results[stop - k].val]]

\* the features added to the memory layer before the loop ended at turn stop,
\* and the exception that ended it early, if any
LoopUntil(results, stop) ==
    [ok |-> stop > Len(results),
     err |-> IF stop > Len(results) THEN "" ELSE results[stop].err,
     staged |-> [k \in 1..(stop - 1) |-> results[k].val]]

FeatureLoop(results) == LoopUntil(results, LoopEnd(results))

\* the feature loop; results[k] is what the loop body does with source[k]
StageAll(kind, source, names, cache) ==
    FeatureLoop([k \in 1..Len(source) |-> StageFeature(kind, source[k], names, cache)])

\* what a call returns and leaves behind: the returned outcome, the file system
\* after the call and what the call held in its memory layer
Returned(outcome, fsys, located, output_fields, source, staged, wrote, code) ==
    [outcome |-> outcome, fs |-> fsys, located |-> located, fields |-> output_fields,
     source |-> source, staged |-> staged, wrote |-> wrote, code |-> code]

\* the end of an export that does not look at the writer's result
ExportWritten_IgnoreError(kind, gdb_path, fsys, output_fields, source, staged, error) ==
    Returned(Success(kind, Len(staged), gdb_path), error.fs, TRUE, output_fields,
             source, staged, TRUE, error.code)

\* the end of an export that reports the rows the feature class holds
ExportWritten_TotalCount(kind, gdb_path, fsys, output_fields, source, staged, error) ==
    IF error.code = NoError
    THEN Returned(Success(kind, Len(error.fs[gdb_path].fcs[FcName(kind)].records), gdb_path),
                  error.fs, TRUE, output_fields, source, staged, TRUE, error.code)
    ELSE Returned(Failure(kind, "Write error: " \o error.msg), fsys, TRUE, output_fields,
                  source, staged, TRUE, error.code)

\* the end of an export: the writer's result decides the outcome
ExportWritten(kind, gdb_path, fsys, output_fields, source, staged, error) ==
    IF error.code = NoError
    THEN Returned(Success(kind, Len(staged), gdb_path), error.fs, TRUE, output_fields,
                  source, staged, TRUE, NoError)
    ELSE Returned(Failure(kind, "Write error: " \o error.msg), fsys, TRUE, output_fields,
                  source, staged, TRUE, error.code)

\* an export after its feature loop: an exception of the loop is the outcome,
\* else the memory layer is written
ExportStaged(kind, gdb_path, fsys, failing, output_fields, source, loop) ==
    IF ~loop.ok
    THEN Returned(Failure(kind, loop.err), fsys, TRUE, output_fields, source, loop.staged,
                  FALSE, NoError)
    ELSE ExportWritten(kind, gdb_path, fsys, output_fields, source, loop.staged,
                       writeAsVectorFormatV3(loop.staged, FieldNames(output_fields), gdb_path,
                                             FcName(kind), actionOnExistingFile, fsys,
                                             failing))

\* an export with its cache, its output fields and the features of the job
ExportFeatures(kind, gdb_path, fsys, failing, cache, output_fields, source) ==
    IF ~cache.ok
    THEN Returned(Failure(kind, cache.err), fsys, TRUE, output_fields, source, <<>>,
                  FALSE, NoError)
    ELSE ExportStaged(kind, gdb_path, fsys, failing, output_fields, source,
                      StageAll(kind, source, FieldNames(output_fields), cache.val))

\* an export that takes any layer it finds, valid or not
ExportLayer_AnyLayer(kind, job, gdb_path, proj, fsys, failing, target_layer) ==
    IF target_layer.none
    THEN Returned(Failure(kind, NotFoundError(kind)), fsys, FALSE, <<>>, <<>>, <<>>,
                  FALSE, NoError)
    ELSE ExportFeatures(kind, gdb_path, fsys, failing,
                        build_lookup_cache(target_layer, proj),
                        OutputFields(kind, target_layer),
                        JobFeatures(target_layer, job))

\* an export once the search for its layer has ended
ExportLayer(kind, job, gdb_path, proj, fsys, failing, target_layer) ==
    IF target_layer.none \/ ~target_layer.valid
    THEN Returned(Failure(kind, NotFoundError(kind)), fsys, FALSE, <<>>, <<>>, <<>>,
                  FALSE, NoError)
    ELSE ExportFeatures(kind, gdb_path, fsys, failing,
                        build_lookup_cache(target_layer, proj),
                        OutputFields(kind, target_layer),
                        JobFeatures(target_layer, job))

\* export_<kind>_to_gdb(job_id, gdb_path)
Export(kind, job, gdb_path, proj, fsys, failing) ==
    ExportLayer(kind, job, gdb_path, proj, fsys, failing, FindLayer(kind, proj))

(***************************************************************************)
(* The environment of a run: the QGIS project, the template geodatabase,   *)
(* the driver and the job.  Source layers hold one feature per combination *)
(* of the values the special logic distinguishes.                          *)
(***************************************************************************)
MaxExports == 2
JobIds == {1, 2}
\* a job none of the layers has a record of
EmptyJob == 3

KindOrder == <<"punkt", "rohrmuffe", "messpunkt", "bauten", "netztechnik",
               "endverbraucher", "leerrohre", "verbindungen">>

LayerName(kind) ==
    CASE kind = "punkt" -> "Punkt"
      [] kind = "rohrmuffe" -> "ROHRMUFFE"
      [] kind = "messpunkt" -> "Messpunkt"
      [] kind = "bauten" -> "bauten"
      [] kind = "netztechnik" -> "Netztechnik"
      [] kind = "endverbraucher" -> "EndVerbraucher"
      [] kind = "leerrohre" -> "Bestand Leerrohre"
      [] OTHER -> "Verbindungen_2024"

\* the fields the source layers of the model have (a table's other source
\* fields are absent from the layer)
SourceFieldNames(kind) ==
    CASE kind \in {"punkt", "rohrmuffe"} -> <<"id", "ART", "BAUJAHR", "BEMERKUNG", "job_id">>
      [] kind = "messpunkt" -> <<"id", "ART", "BEMERKUNG", "job_id">>
      [] kind \in {"bauten", "netztechnik"} ->
            <<"id", "ART", "ART_SONST", "BAUJAHR", "BEMERKUNG", "job_id">>
      [] kind = "endverbraucher" -> <<"id", "KUNDENTYP", "job_id">>
      [] kind = "leerrohre" ->
            <<"id", "TYP", "LR_HERST", "LR_HER_SON", "M_FARB", "M_FARB_SON",
              "ER_FARB", "ER_FARB_SON", "BEMERKUNG", "job_id">>
      [] OTHER -> <<"id", "VERB_ART", "V_A_SONST", "ER_FARB", "ER_FARB_SON", "TYP",
                    "BEMERKUNG", "job_id">>

CodedFields == {"ART", "KUNDENTYP", "TYP", "LR_HERST", "M_FARB", "ER_FARB", "VERB_ART"}
FreeTextFields == {"ART_SONST", "LR_HER_SON", "M_FARB_SON", "ER_FARB_SON", "V_A_SONST"}
IntFields == {"id", "BAUJAHR", "job_id"}

\* the value tables: code -> label
WerteRows == << <<IntV(1), StrV("Alt")>>, <<IntV(2), StrV("Sonstige")>>,
                <<IntV(3), StrV("Sonstiges")>>, <<IntV(4), StrV("rot")>>,
                <<IntV(5), StrV("blau")>>, <<IntV(6), StrV("sonstige")>>,
                <<StrV("1"), StrV("Standard")>> >>

TypRows == << <<IntV(1), StrV("Schutzrohr 50mm")>>, <<IntV(2), StrV("Einzelrohr")>>,
              <<IntV(3), StrV("ROHRVERBAND")>>, <<IntV(4), StrV("Kabel")>>,
              <<IntV(5), StrV("Einzelrohr im Schutzrohr")>> >>

LookupLayer(id, name, rows) ==
    [none |-> FALSE, id |-> id, name |-> name, valid |-> TRUE,
     fields |-> << QgsField("key", "Integer", "Integer", 10, 0),
                   QgsField("value", "String", "String", 50, 0) >>,
     widget |-> [f \in {"key", "value"} |-> [type |-> "TextEdit", config |-> <<>>]],
     features |-> [k \in 1..Len(rows) |->
                     [geom |-> "", attrs |-> [f \in {"key", "value"} |->
                                               IF f = "key" THEN rows[k][1] ELSE rows[k][2]]]]]

\* the code whose label is an ordinary value of the field
PlainCode(field) == CASE field = "M_FARB" -> 4 [] field = "ER_FARB" -> 5 [] OTHER -> 1

\* coded fields whose codes are integers; the other coded fields hold text codes
IntCodedFields == {"TYP", "KUNDENTYP"}

\* the six cases of a coded field: the code of 'Sonstiges', a second sentinel
\* (a code, or the text itself where the field holds text), the code of
\* 'sonstige', the code of an ordinary label, a code the table lacks, null
CodeCases(field) ==
    IF field \in IntCodedFields
    THEN <<IntV(3), IntV(2), IntV(6), IntV(PlainCode(field)), IntV(9), None>>
    ELSE <<StrV("3"), StrV("Sonstige"), StrV("6"), StrV(ToString(PlainCode(field))),
           StrV("9"), None>>

\* the same cases of an uncoded field: the text itself
TextCases(field) ==
    <<StrV("Sonstiges"), StrV("Sonstige"), StrV("sonstige"),
      IF field = "M_FARB" THEN StrV("rot") ELSE IF field = "ER_FARB" THEN StrV("blau")
      ELSE StrV("Standard"), StrV("9"), None>>

TypCodeCases == <<IntV(1), IntV(2), IntV(3), IntV(4), IntV(5), None>>
TypTextCases == <<StrV("Schutzrohr 50mm"), StrV("Einzelrohr"), StrV("ROHRVERBAND"),
                  StrV("Kabel"), StrV("Einzelrohr im Schutzrohr"), None>>

FreeTextCases(field) == <<None, StrV(""), StrV("Custom Label " \o field)>>

\* how many value combinations a kind's layer holds
Combinations(kind) ==
    CASE kind = "leerrohre" -> 36
      [] kind \in {"bauten", "netztechnik", "verbindungen"} -> 18
      [] OTHER -> 6

\* the value of a field in the n-th combination
CaseValue(field, n, coding) ==
    LET t == ((n - 1) % 6) + 1
        y == (((n - 1) \div 6) % 6) + 1
        r == (((t - 1) + 2 * (y - 1)) % 3) + 1
    IN  CASE field = "id" -> IntV(n)
          [] field = "BAUJAHR" -> IF n % 2 = 0 THEN IntV(2020) ELSE None
          [] field = "BEMERKUNG" -> IF n % 3 = 0 THEN None ELSE StrV("Bemerkung")
          [] field = "TYP" -> IF coding = "plain" THEN TypTextCases[y] ELSE TypCodeCases[y]
          [] field \in FreeTextFields -> FreeTextCases(field)[r]
          [] OTHER -> IF coding = "plain" THEN TextCases(field)[t] ELSE CodeCases(field)[t]

SourceFeature(kind, names, n, fid, job, coding) ==
    [geom |-> LayerName(kind) \o "#" \o ToString(fid),
     attrs |-> [f \in names |-> IF f = "job_id" THEN IntV(job)
                                ELSE CaseValue(f, n, coding)]]

\* a source layer: every combination for job 1, the first two for job 2
SourceLayer(kind, coding, dropped, valid) ==
    LET all == SourceFieldNames(kind)
        fieldSeq == SelectSeq(all, LAMBDA f : f # dropped)
        names == {fieldSeq[k] : k \in 1..Len(fieldSeq)}
        count == Combinations(kind)
        coded == coding # "plain"
    IN  [none |-> FALSE, id |-> LayerName(kind) \o "_id", name |-> LayerName(kind),
         valid |-> valid,
         fields |-> [k \in 1..Len(fieldSeq) |->
                       IF fieldSeq[k] \in IntFields \/ (coded /\ fieldSeq[k] \in IntCodedFields)
                       THEN QgsField(fieldSeq[k], "Integer", "Integer", 10, 0)
                       ELSE QgsField(fieldSeq[k], "String", "String", 50, 0)],
         widget |-> [f \in names |->
                       IF coded /\ f \in CodedFields
                       THEN [type |-> "ValueRelation",
                             config |-> [Layer |-> IF coding = "unresolved" THEN "lk_gone"
                                                   ELSE IF f = "TYP" THEN "lk_typ"
                                                   ELSE "lk_werte_7f3a",
                                         Key |-> "key", Value |-> "value"]]
                       ELSE [type |-> "TextEdit", config |-> <<>>]],
         features |-> [k \in 1..(count + 2) |->
                         IF k = 1 THEN SourceFeature(kind, names, 1, k, 2, coding)
                         ELSE IF k = count + 2
                         THEN SourceFeature(kind, names, 2, k, 2, coding)
                         ELSE SourceFeature(kind, names, k - 1, k, 1, coding)]]

\* which layers the project has: all of them, or every second one missing and
\* the others invalid, or every third missing, every third invalid, the rest valid
LayerStatus(status, k) ==
    CASE status = "all" -> "valid"
      [] status = "mixed" -> IF k % 3 = 0 THEN "missing"
                             ELSE IF k % 3 = 1 THEN "invalid" ELSE "valid"
      [] status = "odd" -> IF k % 2 = 1 THEN "missing" ELSE "invalid"
      [] OTHER -> IF k % 2 = 0 THEN "missing" ELSE "invalid"

MakeProject(coding, dropped, status) ==
    LET present == SelectSeq([k \in 1..Len(KindOrder) |-> k],
                             LAMBDA k : LayerStatus(status, k) # "missing")
    IN  << LookupLayer("lk_typ_01c2", "lk_typ", TypRows),
           LookupLayer("lk_werte_7f3a", "Wertetabelle", WerteRows) >>
        \o [m \in 1..Len(present) |->
              SourceLayer(KindOrder[present[m]], coding, dropped,
                          LayerStatus(status, present[m]) = "valid")]

\* the gdb field names the tables send to a feature class
RECURSIVE GdbNames(_, _)
GdbNames(mapping, n) == IF n = 0 THEN {} ELSE GdbNames(mapping, n - 1) \cup {mapping[n][2]}

TemplateSchema(fc, variant) ==
    LET full ==
          CASE fc = GDB_FEATURE_CLASSES.punkt ->
                 UNION {GdbNames(FieldMapping(kind), Len(FieldMapping(kind))) :
                          kind \in Kinds \ {"leerrohre", "verbindungen"}}
            [] fc = GDB_FEATURE_CLASSES.rohr ->
                 GdbNames(LEERROHRE_TO_COM_DOKU_ROHR, Len(LEERROHRE_TO_COM_DOKU_ROHR))
                 \cup {"LR_FARBE"}
            [] fc = GDB_FEATURE_CLASSES.kabel ->
                 GdbNames(VERBINDUNGEN_TO_COM_DOKU_KABEL, Len(VERBINDUNGEN_TO_COM_DOKU_KABEL))
                 \cup {"LR_FARBE"}
            [] OTHER -> {"KABEL_ID", "ROHR_ID"}
    IN  IF variant = "full" THEN full ELSE full \ {"LR_FARBE", "BEMERKUNG"}

FcNames == {GDB_FEATURE_CLASSES.punkt, GDB_FEATURE_CLASSES.kabel,
            GDB_FEATURE_CLASSES.rohr, GDB_FEATURE_CLASSES.rel_kabel_rohr}

TemplateStore(variant) ==
    [exists |-> TRUE,
     fcs |-> [fc \in FcNames |-> [schema |-> TemplateSchema(fc, variant), records |-> <<>>]]]

Paths == {template_gdb_path}
         \cup {OutputGdbPath(output_folder, j) : j \in JobIds \cup {EmptyJob}}

(***************************************************************************)
(* State.  project, job_id and driver are the run's environment; fs is the *)
(* file system; outcomes are the outcomes returned since the job's         *)
(* geodatabase was provisioned; last is what the last export call held;    *)
(* appended and replaced record the history the properties speak about:    *)
(* the features written since the last provisioning, and whether that      *)
(* provisioning removed a geodatabase that held records; run is the export *)
(* in progress where an export is followed statement by statement; probe   *)
(* is the feature a single calculation is applied to, with its result.     *)
(***************************************************************************)
Codings == {"coded", "plain", "unresolved"}
DropChoices == {"", "ART", "ART_SONST", "TYP", "LR_HER_SON", "ER_FARB", "BEMERKUNG"}
StatusChoices == {"all", "odd", "even", "mixed"}
TemplateVariants == {"full", "narrow"}
DriverChoices == {{}, {GDB_FEATURE_CLASSES.rohr}, {GDB_FEATURE_CLASSES.punkt}}

BaseScenario == [coding |-> "coded", dropped |-> "", status |-> "all",
                 variant |-> "full", failing |-> {}, job |-> 1]

\* the runs explored: the base environment with one of its aspects varied
Scenarios ==
    {[BaseScenario EXCEPT !.coding = c] : c \in Codings}
    \cup {[BaseScenario EXCEPT !.dropped = d] : d \in DropChoices}
    \cup {[BaseScenario EXCEPT !.status = st] : st \in StatusChoices}
    \cup {[BaseScenario EXCEPT !.variant = v] : v \in TemplateVariants}
    \cup {[BaseScenario EXCEPT !.failing = f] : f \in DriverChoices}
    \cup {[BaseScenario EXCEPT !.job = j] : j \in JobIds}

NoCall == [kind |-> "", outcome |-> Failure("punkt", ""), located |-> FALSE,
           fields |-> <<>>, source |-> <<>>, staged |-> <<>>, wrote |-> FALSE,
           code |-> NoError]

gdb_path == OutputGdbPath(output_folder, job_id)

\* no calculation is applied on its own
NoProbe == [feature |-> [geom |-> "", attrs |-> <<>>], cache |-> <<>>, applied |-> FALSE,
            result |-> Return(None)]

\* no export is running: the position of the call, the phases it has passed
\* and its local variables
NoRun == [pc |-> "idle", kind |-> "", trace |-> <<>>, cache |-> <<>>, fields |-> <<>>,
          source |-> <<>>, index |-> 0, lr_farbe_value |-> None, new_feature |-> <<>>,
          staged |-> <<>>, outcome |-> Failure("punkt", ""), located |-> FALSE,
          wrote |-> FALSE, code |-> NoError]

HasRecords(store) ==
    store.exists /\ \E fc \in DOMAIN store.fcs : store.fcs[fc].records # <<>>

Init ==
    \E sc \in Scenarios :
        /\ project = MakeProject(sc.coding, sc.dropped, sc.status)
        /\ job_id = sc.job
        /\ driver = sc.failing
        /\ fs = [p \in Paths |-> IF p = template_gdb_path
                                 THEN TemplateStore(sc.variant) ELSE NoStore]
        /\ outcomes = <<>>
        /\ last = NoCall
        /\ appended = [fc \in FcNames |-> <<>>]
        /\ replaced = FALSE
        /\ run = NoRun
        /\ probe = NoProbe

\* gdb_path = exporter.copy_template_gdb(output_folder, job_id)
CopyTemplate ==
    /\ fs' = copy_template_gdb(fs, output_folder, job_id)
    /\ replaced' = HasRecords(fs[gdb_path])
    /\ outcomes' = <<>>
    /\ last' = NoCall
    /\ appended' = [fc \in FcNames |-> <<>>]
    /\ UNCHANGED <<project, job_id, driver, run, probe>>

\* an export without its try/except: an exception raised in the body leaves
\* the call and no outcome is returned
ExportCall_Uncaught(kind) ==
    /\ fs[gdb_path].exists
    /\ Len(outcomes) < MaxExports
    /\ \E r \in {Export(kind, job_id, gdb_path, project, fs, driver)} :
           /\ fs' = r.fs
           /\ outcomes' = IF r.located /\ ~r.wrote THEN outcomes
                          ELSE Append(outcomes, r.outcome)
           /\ last' = [kind |-> kind, outcome |-> r.outcome, located |-> r.located,
                       fields |-> r.fields, source |-> r.source, staged |-> r.staged,
                       wrote |-> r.wrote, code |-> r.code]
           /\ appended' = IF r.outcome.success
                          THEN [appended EXCEPT ![FcName(kind)] = @ \o r.staged]
                          ELSE appended
    /\ UNCHANGED <<project, job_id, driver, replaced, run, probe>>

\* one call of an export with the path copy_template_gdb returned
ExportCall(kind) ==
    /\ fs[gdb_path].exists
    /\ Len(outcomes) < MaxExports
    /\ \E r \in {Export(kind, job_id, gdb_path, project, fs, driver)} :
           /\ fs' = r.fs
           /\ outcomes' = Append(outcomes, r.outcome)
           /\ last' = [kind |-> kind, outcome |-> r.outcome, located |-> r.located,
                       fields |-> r.fields, source |-> r.source, staged |-> r.staged,
                       wrote |-> r.wrote, code |-> r.code]
           /\ appended' = IF r.outcome.success
                          THEN [appended EXCEPT ![FcName(kind)] = @ \o r.staged]
                          ELSE appended
    /\ UNCHANGED <<project, job_id, driver, replaced, run, probe>>

export_punkt_to_gdb == ExportCall("punkt")
export_rohrmuffe_to_gdb == ExportCall("rohrmuffe")
export_messpunkt_to_gdb == ExportCall("messpunkt")
export_bauten_to_gdb == ExportCall("bauten")
export_netztechnik_to_gdb == ExportCall("netztechnik")
export_endverbraucher_to_gdb == ExportCall("endverbraucher")
export_leerrohre_to_gdb == ExportCall("leerrohre")
export_verbindungen_to_gdb == ExportCall("verbindungen")

Next ==
    \/ CopyTemplate
    \/ export_punkt_to_gdb
    \/ export_rohrmuffe_to_gdb
    \/ export_messpunkt_to_gdb
    \/ export_bauten_to_gdb
    \/ export_netztechnik_to_gdb
    \/ export_endverbraucher_to_gdb
    \/ export_leerrohre_to_gdb
    \/ export_verbindungen_to_gdb

Spec == Init /\ [][Next]_vars

(***************************************************************************)
(* One export, statement by statement.  The same code as Export, cut at    *)
(* the points the phases of an export are named after: the search for the  *)
(* layer, the lookup cache, the output fields and the job's features, then *)
(* for each feature the field mapping and the special logic, the write and *)
(* the return.  run.trace lists the phases the call has passed.            *)
(***************************************************************************)
MaxRuns == 1

\* the environments the statement-by-statement exports run in
PhaseScenarios ==
    {[BaseScenario EXCEPT !.job = 2],
     [BaseScenario EXCEPT !.job = 2, !.dropped = "TYP"],
     [BaseScenario EXCEPT !.job = 2, !.dropped = "ART_SONST"],
     [BaseScenario EXCEPT !.job = 2, !.status = "mixed"],
     [BaseScenario EXCEPT !.job = 2, !.failing = {GDB_FEATURE_CLASSES.rohr}],
     [BaseScenario EXCEPT !.job = EmptyJob],
     BaseScenario}

\* the state after copy_template_gdb
PhaseInit ==
    \E sc \in PhaseScenarios :
        /\ project = MakeProject(sc.coding, sc.dropped, sc.status)
        /\ job_id = sc.job
        /\ driver = sc.failing
        /\ fs = copy_template_gdb([p \in Paths |-> IF p = template_gdb_path
                                                  THEN TemplateStore(sc.variant) ELSE NoStore],
                                  output_folder, sc.job)
        /\ outcomes = <<>>
        /\ last = NoCall
        /\ appended = [fc \in FcNames |-> <<>>]
        /\ replaced = FALSE
        /\ run = NoRun
        /\ probe = NoProbe

\* the call reaches its return statement with this outcome
Returning(r, outcome) == [r EXCEPT !.pc = "return", !.outcome = outcome]

\* except Exception as e: return {..., 'success': False, 'error': str(e)}
Caught(r, err) == Returning(r, Failure(r.kind, err))

\* the special logic on the mapped feature; Leerrohre sets the LR_FARBE it
\* calculated before the mapping
RulesOn(kind, qgis_feature, new_feature, cache, lr_farbe_value) ==
    IF kind = "leerrohre"
    THEN LeerrohreLogic(lr_farbe_value,
                        FreeTextRule(qgis_feature, new_feature, "LR_HERST", "LR_HER_SON"))
    ELSE SpecialLogic(kind, qgis_feature, new_feature, cache)

\* one turn of the feature loop, statement by statement: the LR_FARBE that
\* Leerrohre calculates first, the feature after the mapping loop and the
\* feature after the special logic
TurnOf(kind, qgis_feature, cache, lr_farbe_value, new_feature) ==
    [lr_farbe_value |-> lr_farbe_value,
     new_feature |-> new_feature,
     result |-> RulesOn(kind, qgis_feature, new_feature, cache, lr_farbe_value)]

Turn(kind, qgis_feature, names, cache) ==
    TurnOf(kind, qgis_feature, cache,
           IF kind = "leerrohre" THEN LrFarbeByTyp(qgis_feature, cache) ELSE Return(None),
           MapFields(FieldMapping(kind), qgis_feature, NewFeature(qgis_feature, names),
                     cache, Len(FieldMapping(kind))))

\* what the statements of an export compute from the project and the job
\* alone: the cache, the output fields, the job's features and the turns of
\* the feature loop
ComputedOf(kind, cache, output_fields, source) ==
    [cache |-> cache, fields |-> output_fields, source |-> source,
     turns |-> IF cache.ok
               THEN {<<k, Turn(kind, source[k], FieldNames(output_fields), cache.val)>> :
                       k \in 1..Len(source)}
               ELSE {}]

Computed(kind, proj, job) ==
    ComputedOf(kind, build_lookup_cache(FindLayer(kind, proj), proj),
               OutputFields(kind, FindLayer(kind, proj)),
               JobFeatures(FindLayer(kind, proj), job))

\* these values for the environments explored, evaluated once
PhaseProjects == {MakeProject(sc.coding, sc.dropped, sc.status) : sc \in PhaseScenarios}
PhaseJobs == {sc.job : sc \in PhaseScenarios}

Computations ==
    {[kind |-> kind, proj |-> proj, job |-> job, val |-> Computed(kind, proj, job)] :
        kind \in Kinds, proj \in PhaseProjects, job \in PhaseJobs}

ThisExport ==
    (CHOOSE c \in Computations :
        c.kind = run.kind /\ c.proj = project /\ c.job = job_id).val

ThisTurn ==
    (CHOOSE turn \in ThisExport.turns : turn[1] = run.index + 1)[2]

\* a feature loop that is left for the write after its first turn, or before it
AfterFeature_WriteEachTurn(kind, index, count) == "write"

\* the statement after the special logic of the feature at index: the next
\* turn of the feature loop, or the write
AfterFeature(kind, index, count) ==
    IF index < count THEN (IF kind = "leerrohre" THEN "colour" ELSE "map") ELSE "write"

\* the first statement after the memory layer is set up
LoopStart(kind, count) == AfterFeature(kind, 0, count)

\* the call and the search for the layer
Locate(kind) ==
    /\ run.pc = "idle"
    /\ Len(outcomes) < MaxRuns
    /\ run' = IF FindLayer(kind, project).none \/ ~FindLayer(kind, project).valid
              THEN Returning([NoRun EXCEPT !.kind = kind],
                             Failure(kind, NotFoundError(kind)))
              ELSE [NoRun EXCEPT !.kind = kind, !.pc = "cache", !.located = TRUE,
                                 !.trace = <<"Located">>]
    /\ UNCHANGED <<project, job_id, driver, fs, outcomes, last, appended, replaced, probe>>

\* cache = self.build_lookup_cache(target_layer)
BuildCache ==
    /\ run.pc = "cache"
    /\ \E cache \in {ThisExport.cache} :
          run' = IF cache.ok
                 THEN [run EXCEPT !.pc = "fields", !.cache = cache.val,
                                  !.trace = Append(@, "CacheBuilt")]
                 ELSE Caught(run, cache.err)
    /\ UNCHANGED <<project, job_id, driver, fs, outcomes, last, appended, replaced, probe>>

\* the output fields, the memory layer and the request for the job's features
BuildOutputFields ==
    /\ run.pc = "fields"
    /\ \E computed \in {ThisExport} :
          run' = [run EXCEPT !.fields = computed.fields,
                             !.source = computed.source,
                             !.pc = LoopStart(run.kind, Len(computed.source))]
    /\ UNCHANGED <<project, job_id, driver, fs, outcomes, last, appended, replaced, probe>>

\* Leerrohre: LR_FARBE is calculated from TYP before the fields are mapped
DeriveLrFarbe ==
    /\ run.pc = "colour"
    /\ \E lr_farbe_value \in {ThisTurn.lr_farbe_value} :
          run' = IF lr_farbe_value.ok
                 THEN [run EXCEPT !.pc = "map", !.lr_farbe_value = lr_farbe_value.val,
                                  !.trace = Append(@, "LrFarbeDerived")]
                 ELSE Caught(run, lr_farbe_value.err)
    /\ UNCHANGED <<project, job_id, driver, fs, outcomes, last, appended, replaced, probe>>

\* the new feature and the loop over the field mapping
MapRecord ==
    /\ run.pc = "map"
    /\ run' = [run EXCEPT !.pc = "rules",
                          !.new_feature = ThisTurn.new_feature,
                          !.trace = Append(@, "Mapped")]
    /\ UNCHANGED <<project, job_id, driver, fs, outcomes, last, appended, replaced, probe>>

\* the special logic, mem_layer.addFeature(new_feature) and feature_count += 1
ApplyRules ==
    /\ run.pc = "rules"
    /\ \E result \in {ThisTurn.result} :
          run' = IF result.ok
                 THEN [run EXCEPT !.staged = Append(@, result.val),
                                  !.index = @ + 1,
                                  !.pc = AfterFeature(run.kind, run.index + 1,
                                                      Len(run.source)),
                                  !.trace = Append(@, "RulesApplied")]
                 ELSE Caught(run, result.err)
    /\ UNCHANGED <<project, job_id, driver, fs, outcomes, last, appended, replaced, probe>>

\* mem_layer.commitChanges() and the call of the writer
WriteLayer ==
    /\ run.pc = "write"
    /\ \E error \in {writeAsVectorFormatV3(run.staged, FieldNames(run.fields), gdb_path,
                                           FcName(run.kind), actionOnExistingFile, fs,
                                           driver)} :
          /\ fs' = error.fs
          /\ run' = [run EXCEPT
                       !.pc = "return", !.wrote = TRUE, !.code = error.code,
                       !.outcome = IF error.code = NoError
                                   THEN Success(run.kind, Len(run.staged), gdb_path)
                                   ELSE Failure(run.kind, "Write error: " \o error.msg),
                       !.trace = Append(@, "Appended")]
    /\ UNCHANGED <<project, job_id, driver, outcomes, last, appended, replaced, probe>>

\* return {...}
ReturnOutcome ==
    /\ run.pc = "return"
    /\ outcomes' = Append(outcomes, run.outcome)
    /\ last' = [kind |-> run.kind, outcome |-> run.outcome, located |-> run.located,
                fields |-> run.fields, source |-> run.source, staged |-> run.staged,
                wrote |-> run.wrote, code |-> run.code]
    /\ appended' = IF run.outcome.success
                   THEN [appended EXCEPT ![FcName(run.kind)] = @ \o run.staged]
                   ELSE appended
    /\ run' = [run EXCEPT !.pc = "idle", !.trace = Append(@, "Reported")]
    /\ UNCHANGED <<project, job_id, driver, fs, replaced, probe>>

\* the statements of a call that is under way
Step ==
    \/ BuildCache
    \/ BuildOutputFields
    \/ DeriveLrFarbe
    \/ MapRecord
    \/ ApplyRules
    \/ WriteLayer
    \/ ReturnOutcome

PhaseNext ==
    \/ \E kind \in Kinds : Locate(kind)
    \/ Step

\* an export is synchronous, single-threaded code whose loops are over finite
\* sequences: a call that is under way takes its next statement
PhaseSpec == PhaseInit /\ [][PhaseNext]_vars /\ WF_vars(Step)

(***************************************************************************)
(* The calculation of LR_FARBE on its own: LrFarbeByTyp applied to one     *)
(* Leerrohre feature.  The feature has a TYP, as a code of the TYP table   *)
(* or as text, and any of the four colour fields; a field the layer lacks  *)
(* is a field the feature lacks, and reading it raises KeyError.           *)
(***************************************************************************)
Absent == [t |-> "absent", i |-> 0, s |-> ""]

\* the TYP values: the codes of the table, a code it lacks, texts with the
\* keywords in either order and case, a text without a keyword, null
TypValues ==
    {IntV(k) : k \in 1..Len(TypRows)}
    \cup {IntV(9), None, StrV("Schutzrohr mit Einzelrohr"), StrV("EINZELROHR/ROHRVERBAND"),
          StrV("einzelrohr"), StrV("Rohrverband"), StrV("Kabel")}

FarbValues(farb) == {Absent, None, StrV("Sonstige"), StrV("Sonstiges"), StrV(farb \o " rot")}
FarbSonValues(farb_son) == {Absent, None, StrV(farb_son \o " frei")}

\* the feature with these values; an absent value is a field it lacks
FarbFeature(typ, m_farb, m_farb_son, er_farb, er_farb_son) ==
    LET values == [name \in {"TYP", "M_FARB", "M_FARB_SON", "ER_FARB", "ER_FARB_SON"} |->
                     CASE name = "TYP" -> typ
                       [] name = "M_FARB" -> m_farb
                       [] name = "M_FARB_SON" -> m_farb_son
                       [] name = "ER_FARB" -> er_farb
                       [] OTHER -> er_farb_son]
    IN  [geom |-> "Leerrohre#1",
         attrs |-> [name \in {f \in DOMAIN values : values[f] # Absent} |-> values[name]]]

\* the cache of a layer whose TYP is a ValueRelation to the TYP table
TypCache ==
    [TYP |-> BuildLookup(LookupLayer("lk_typ_01c2", "lk_typ", TypRows).features,
                         "key", "value", Len(TypRows)).val]

FarbInit ==
    /\ project = MakeProject(BaseScenario.coding, BaseScenario.dropped, BaseScenario.status)
    /\ job_id = BaseScenario.job
    /\ driver = BaseScenario.failing
    /\ fs = [p \in Paths |-> IF p = template_gdb_path
                             THEN TemplateStore(BaseScenario.variant) ELSE NoStore]
    /\ outcomes = <<>>
    /\ last = NoCall
    /\ appended = [fc \in FcNames |-> <<>>]
    /\ replaced = FALSE
    /\ run = NoRun
    /\ \E typ \in TypValues, m_farb \in FarbValues("M_FARB"),
          m_farb_son \in FarbSonValues("M_FARB_SON"), er_farb \in FarbValues("ER_FARB"),
          er_farb_son \in FarbSonValues("ER_FARB_SON") :
          probe = [feature |-> FarbFeature(typ, m_farb, m_farb_son, er_farb, er_farb_son),
                   cache |-> TypCache, applied |-> FALSE, result |-> Return(None)]

\* First calculate LR_FARBE based on TYP
ApplyLrFarbe ==
    /\ ~probe.applied
    /\ probe' = [probe EXCEPT !.applied = TRUE,
                              !.result = LrFarbeByTyp(probe.feature, probe.cache)]
    /\ UNCHANGED <<project, job_id, driver, fs, outcomes, last, appended, replaced, run>>

FarbNext == ApplyLrFarbe

FarbSpec == FarbInit /\ [][FarbNext]_vars

(***************************************************************************)
(* What the properties speak about, read from the project itself: the      *)
(* lookup table of a coded field, the display value of a raw value, the    *)
(* pair a TYP selects and the override rules of each export.               *)
(***************************************************************************)
LastLayer == FindLayer(last.kind, project)

StagedIndexes == 1..Len(last.staged)

\* the field is coded and its related layer is in the project
HasTable(layer, field) ==
    /\ field \in FieldNames(layer.fields)
    /\ layer.widget[field].type = "ValueRelation"
    /\ \E k \in 1..Len(project) :
          layer.widget[field].config.Layer \in {project[k].id, project[k].name}

\* the rows of the field's table whose key has the string form of the raw value
Entries(layer, field, raw) ==
    LET table == project[CHOOSE k \in 1..Len(project) :
                    layer.widget[field].config.Layer \in {project[k].id, project[k].name}]
    IN  {k \in 1..Len(table.features) :
            PyStr(table.features[k].attrs[layer.widget[field].config.Key]) = PyStr(raw)}

HasEntry(layer, field, raw) ==
    raw # None /\ HasTable(layer, field) /\ Entries(layer, field, raw) # {}

\* the label of the last row with that key
Label1(layer, field, raw) ==
    LET table == project[CHOOSE k \in 1..Len(project) :
                    layer.widget[field].config.Layer \in {project[k].id, project[k].name}]
        rows == Entries(layer, field, raw)
        k == CHOOSE m \in rows : \A n \in rows : n <= m
    IN  table.features[k].attrs[layer.widget[field].config.Value]

\* the display value of a raw value: its label, or the raw value itself
Display(layer, field, raw) ==
    IF HasEntry(layer, field, raw) THEN Label1(layer, field, raw) ELSE raw

\* the pair of colour fields the TYP of a Leerrohre record selects
TypPair(layer, src) ==
    LET typ == IF "TYP" \in DOMAIN src.attrs
               THEN Display(layer, "TYP", src.attrs["TYP"]) ELSE None
        low == Lower(PyStr(typ))
    IN  IF ~Truthy(typ) THEN "none"
        ELSE IF Contains("schutzrohr", low) \/ Contains("rohrverband", low) THEN "first"
        ELSE IF Contains("einzelrohr", low) THEN "second"
        ELSE "none"

Rule(trigger, target, free) == [trigger |-> trigger, target |-> target, free |-> free]

\* the override rules that apply to a source record of an export
RulesFor(kind, layer, src) ==
    CASE kind \in {"bauten", "netztechnik"} -> {Rule("ART", "ART", "ART_SONST")}
      [] kind = "leerrohre" ->
            LET pair == TypPair(layer, src)
            IN  {Rule("LR_HERST", "LR_HERST", "LR_HER_SON")}
                \cup (IF pair = "first" THEN {Rule("M_FARB", "LR_FARBE", "M_FARB_SON")}
                      ELSE IF pair = "second"
                      THEN {Rule("ER_FARB", "LR_FARBE", "ER_FARB_SON")}
                      ELSE {})
      [] kind = "verbindungen" ->
            {Rule("VERB_ART", "ART", "V_A_SONST"), Rule("ER_FARB", "LR_FARBE", "ER_FARB_SON")}
      [] OTHER -> {}

\* the rules of a source record whose fields the source layer has
RulesOf(kind, layer, src) ==
    {rule \in RulesFor(kind, layer, src) : {rule.trigger, rule.free} \subseteq DOMAIN src.attrs}

TriggerValue(layer, src, rule) == Display(layer, rule.trigger, src.attrs[rule.trigger])

(***************************************************************************)
(* C1: in every override rule, when the triggering value is 'Sonstige' or  *)
(* 'Sonstiges' and the free-text attribute is null or empty, the target    *)
(* attribute of the staged record keeps the triggering value.              *)
(***************************************************************************)
KeepsTrigger(layer, src, out, rule) ==
    LET trigger == TriggerValue(layer, src, rule)
    IN  (/\ trigger.t = "str"
         /\ trigger.s \in Sentinels
         /\ src.attrs[rule.free] \in {None, StrV("")})
        => out.attrs[rule.target] = trigger

C1_NoBlanking ==
    LET layer == LastLayer
    IN  \A k \in StagedIndexes :
            \A rule \in RulesOf(last.kind, layer, last.source[k]) :
                KeepsTrigger(layer, last.source[k], last.staged[k], rule)

(***************************************************************************)
(* C2: in every override rule, a record whose triggering value is          *)
(* 'Sonstiges' and whose free-text attribute is non-empty is staged with   *)
(* the target attribute equal to the free text of the source record.       *)
(***************************************************************************)
TakesFreeText(layer, src, out, rule) ==
    (/\ TriggerValue(layer, src, rule) = StrV("Sonstiges")
     /\ Truthy(src.attrs[rule.free]))
    => out.attrs[rule.target] = src.attrs[rule.free]

C2_Override ==
    LET layer == LastLayer
    IN  \A k \in StagedIndexes :
            \A rule \in RulesOf(last.kind, layer, last.source[k]) :
                TakesFreeText(layer, last.source[k], last.staged[k], rule)

C2_Witness ==
    /\ last.kind = "bauten"
    /\ \E k \in StagedIndexes :
          /\ last.source[k].attrs["ART"] = StrV("3")
          /\ last.source[k].attrs["ART_SONST"] = StrV("Custom Label ART_SONST")
          /\ last.staged[k].attrs["ART"] = StrV("Custom Label ART_SONST")

(***************************************************************************)
(* C3: in the Leerrohre export LR_FARBE follows TYP: a TYP that contains   *)
(* 'schutzrohr' or 'rohrverband' (in any case) gives the value of the pair *)
(* M_FARB / M_FARB_SON, a TYP that contains 'einzelrohr' the value of the  *)
(* pair ER_FARB / ER_FARB_SON, and any other or absent TYP leaves LR_FARBE *)
(* unset.                                                                  *)
(***************************************************************************)
\* the value of a pair: the display value of the colour, or the free text where
\* the colour is Sonstige/Sonstiges; an empty value sets nothing
PairValue(layer, src, farb, farb_son) ==
    LET colour == Display(layer, farb, src.attrs[farb])
        chosen == IF Truthy(colour) /\ PyStr(colour) \in Sentinels
                  THEN src.attrs[farb_son] ELSE colour
    IN  IF Truthy(chosen) THEN chosen ELSE None

FollowsTyp(layer, src, out) ==
    LET pair == TypPair(layer, src)
    IN  out.attrs["LR_FARBE"] =
           CASE pair = "first" -> PairValue(layer, src, "M_FARB", "M_FARB_SON")
             [] pair = "second" -> PairValue(layer, src, "ER_FARB", "ER_FARB_SON")
             [] OTHER -> None

C3_Discriminant ==
    last.kind = "leerrohre" =>
        LET layer == LastLayer
        IN  \A k \in StagedIndexes : FollowsTyp(layer, last.source[k], last.staged[k])

TypIs(layer, src, text) == Display(layer, "TYP", src.attrs["TYP"]) = StrV(text)

C3_Witness ==
    /\ last.kind = "leerrohre"
    /\ LET layer == LastLayer
       IN  /\ \E k \in StagedIndexes :
                 /\ TypIs(layer, last.source[k], "Schutzrohr 50mm")
                 /\ last.staged[k].attrs["LR_FARBE"] = StrV("rot")
           /\ \E k \in StagedIndexes :
                 /\ TypIs(layer, last.source[k], "Einzelrohr")
                 /\ last.staged[k].attrs["LR_FARBE"] = StrV("blau")
           /\ \E k \in StagedIndexes :
                 /\ TypIs(layer, last.source[k], "ROHRVERBAND")
                 /\ last.staged[k].attrs["LR_FARBE"] = StrV("rot")
           /\ \E k \in StagedIndexes :
                 /\ TypIs(layer, last.source[k], "Kabel")
                 /\ last.staged[k].attrs["LR_FARBE"] = None

(***************************************************************************)
(* C4: a failure to read one attribute of one record, in the mapping or in *)
(* the special logic, leaves that attribute unset and nothing else: every  *)
(* record the job-scoped read yields is staged, and an export whose layer  *)
(* was located and whose write the driver accepts does not fail.           *)
(***************************************************************************)
C4_AttributeFaultContained ==
    (last.kind # "" /\ last.located /\ FcName(last.kind) \notin driver)
    => /\ Len(last.staged) = Len(last.source)
       /\ last.outcome.success

(***************************************************************************)
(* C5: every export call returns exactly one outcome, success or failure,  *)
(* appended to the outcomes so far; a call whose own layer is present and  *)
(* valid, has the attributes its special logic reads, and whose write the  *)
(* driver accepts succeeds whatever the earlier outcomes were.             *)
(***************************************************************************)
SpecialFields(kind) ==
    CASE kind \in {"bauten", "netztechnik"} -> {"ART", "ART_SONST"}
      [] kind = "leerrohre" -> {"TYP", "M_FARB", "M_FARB_SON", "ER_FARB", "ER_FARB_SON",
                                "LR_HER_SON"}
      [] kind = "verbindungen" -> {"V_A_SONST", "ER_FARB", "ER_FARB_SON"}
      [] OTHER -> {}

Sound(kind, layer) ==
    /\ ~layer.none
    /\ layer.valid
    /\ SpecialFields(kind) \subseteq FieldNames(layer.fields)
    /\ FcName(kind) \notin driver

WellFormed(outcome) ==
    /\ "success" \in outcome.keys
    /\ outcome.success => ({"count", "file"} \subseteq outcome.keys /\ "error" \notin outcome.keys)
    /\ ~outcome.success => ("error" \in outcome.keys /\ "count" \notin outcome.keys)

OneMoreOutcome(before, after, kind) ==
    /\ Len(after) = Len(before) + 1
    /\ SubSeq(after, 1, Len(before)) = before
    /\ after[Len(after)].layer = Label(kind)
    /\ WellFormed(after[Len(after)])
    /\ Sound(kind, FindLayer(kind, project)) => after[Len(after)].success

C5_OneOutcomePerCall == [][last'.kind # "" => OneMoreOutcome(outcomes, outcomes', last'.kind)]_vars

C5_Witness ==
    /\ Len(outcomes) = 2
    /\ ~outcomes[1].success
    /\ outcomes[2].success
    /\ outcomes[2].count > 0

(***************************************************************************)
(* C6: for every staged record and every mapped attribute that is coded    *)
(* with a lookup table, a non-null raw value whose string form is a key of *)
(* the table is staged as the table's display value.  As amended: unless   *)
(* the attribute is the target of an override rule of the export (ART in   *)
(* BAUTEN, NETZTECHNIK and Verbindungen, LR_HERST in Leerrohre) and the    *)
(* display value is 'Sonstige' or 'Sonstiges'.                             *)
(***************************************************************************)
MappingIndexes(kind, src) ==
    {n \in 1..Len(FieldMapping(kind)) : FieldMapping(kind)[n][1] \in DOMAIN src.attrs}

\* the attribute is one an override rule of the export may replace, and the
\* value is one that makes the rule replace it
Overridable(kind, gdb_field_name, value) ==
    /\ \/ kind \in {"bauten", "netztechnik", "verbindungen"} /\ gdb_field_name = "ART"
       \/ kind = "leerrohre" /\ gdb_field_name = "LR_HERST"
    /\ value.t = "str"
    /\ value.s \in Sentinels

DecodedAt(kind, layer, src, out, n) ==
    LET qgis_field_name == FieldMapping(kind)[n][1]
        raw == src.attrs[qgis_field_name]
    IN  HasEntry(layer, qgis_field_name, raw)
        => out.attrs[FieldMapping(kind)[n][2]] = Label1(layer, qgis_field_name, raw)

DecodedOrOverriddenAt(kind, layer, src, out, n) ==
    LET qgis_field_name == FieldMapping(kind)[n][1]
        raw == src.attrs[qgis_field_name]
    IN  (/\ HasEntry(layer, qgis_field_name, raw)
         /\ ~Overridable(kind, FieldMapping(kind)[n][2], Label1(layer, qgis_field_name, raw)))
        => out.attrs[FieldMapping(kind)[n][2]] = Label1(layer, qgis_field_name, raw)

\* the claim as written
C6_Decoded ==
    LET layer == LastLayer
    IN  \A k \in StagedIndexes : \A n \in MappingIndexes(last.kind, last.source[k]) :
            DecodedAt(last.kind, layer, last.source[k], last.staged[k], n)

\* the claim as amended
C6_DecodedUnlessOverridden ==
    LET layer == LastLayer
    IN  \A k \in StagedIndexes : \A n \in MappingIndexes(last.kind, last.source[k]) :
            DecodedOrOverriddenAt(last.kind, layer, last.source[k], last.staged[k], n)

C6_Witness ==
    /\ last.kind = "punkt"
    /\ HasTable(LastLayer, "ART")
    /\ \E k \in StagedIndexes :
          /\ last.source[k].attrs["ART"] = StrV("1")
          /\ last.staged[k].attrs["ART"] = StrV("Standard")

(***************************************************************************)
(* C7: for every staged record and every mapped attribute that is coded, a *)
(* raw value with no entry in the decode cache (by its string form) is     *)
(* staged unchanged.  As amended: unless the attribute is the target of an *)
(* override rule of the export and the raw value is itself 'Sonstige' or   *)
(* 'Sonstiges'.                                                            *)
(***************************************************************************)
PassedAt(kind, layer, src, out, n) ==
    LET qgis_field_name == FieldMapping(kind)[n][1]
        raw == src.attrs[qgis_field_name]
    IN  (/\ layer.widget[qgis_field_name].type = "ValueRelation"
         /\ ~HasEntry(layer, qgis_field_name, raw))
        => out.attrs[FieldMapping(kind)[n][2]] = raw

PassedOrOverriddenAt(kind, layer, src, out, n) ==
    LET qgis_field_name == FieldMapping(kind)[n][1]
        raw == src.attrs[qgis_field_name]
    IN  (/\ layer.widget[qgis_field_name].type = "ValueRelation"
         /\ ~HasEntry(layer, qgis_field_name, raw)
         /\ ~Overridable(kind, FieldMapping(kind)[n][2], raw))
        => out.attrs[FieldMapping(kind)[n][2]] = raw

\* the claim as written
C7_PassThrough ==
    LET layer == LastLayer
    IN  \A k \in StagedIndexes : \A n \in MappingIndexes(last.kind, last.source[k]) :
            PassedAt(last.kind, layer, last.source[k], last.staged[k], n)

\* the claim as amended
C7_PassThroughUnlessOverridden ==
    LET layer == LastLayer
    IN  \A k \in StagedIndexes : \A n \in MappingIndexes(last.kind, last.source[k]) :
            PassedOrOverriddenAt(last.kind, layer, last.source[k], last.staged[k], n)

C7_Witness ==
    /\ last.kind = "rohrmuffe"
    /\ HasTable(LastLayer, "ART")
    /\ \E k \in StagedIndexes :
          /\ last.source[k].attrs["ART"] = StrV("9")
          /\ last.staged[k].attrs["ART"] = StrV("9")
    /\ last.outcome.success

(***************************************************************************)
(* C8: a record with a null value for a mapped attribute is staged with    *)
(* the destination attribute unset (not an empty string, not zero), in     *)
(* every export.                                                           *)
(***************************************************************************)
NullStaysUnset(kind, src, out, n) ==
    src.attrs[FieldMapping(kind)[n][1]] = None => out.attrs[FieldMapping(kind)[n][2]] = None

C8_NullUnset ==
    \A k \in StagedIndexes : \A n \in MappingIndexes(last.kind, last.source[k]) :
        NullStaysUnset(last.kind, last.source[k], last.staged[k], n)

C8_Witness ==
    /\ last.kind = "verbindungen"
    /\ last.outcome.success
    /\ \E k \in StagedIndexes :
          /\ last.source[k].attrs["BEMERKUNG"] = None
          /\ last.staged[k].attrs["BEMERKUNG"] = None
    /\ \E k \in StagedIndexes :
          /\ last.source[k].attrs["VERB_ART"] = None
          /\ last.staged[k].attrs["ART"] = None

(***************************************************************************)
(* C9: an append never changes the attribute names of a destination        *)
(* feature class; a staged attribute the feature class lacks is dropped    *)
(* for that write and every staged record is still written.                *)
(***************************************************************************)
SchemaKept(before, after) ==
    \A fc \in FcNames :
        /\ after.fcs[fc].schema = before.fcs[fc].schema
        /\ \A k \in 1..Len(after.fcs[fc].records) :
              DOMAIN after.fcs[fc].records[k].attrs = before.fcs[fc].schema

AllWritten(before, after, call) ==
    call.outcome.success =>
        Len(after.fcs[FcName(call.kind)].records)
          = Len(before.fcs[FcName(call.kind)].records) + Len(call.staged)

C9_SchemaFixed ==
    [][last'.kind # "" => /\ SchemaKept(fs[gdb_path], fs'[gdb_path])
                          /\ AllWritten(fs[gdb_path], fs'[gdb_path], last')]_vars

C9_Witness ==
    /\ last.kind = "leerrohre"
    /\ last.outcome.success
    /\ "LR_FARBE" \notin fs[gdb_path].fcs[GDB_FEATURE_CLASSES.rohr].schema
    /\ \E k \in StagedIndexes : last.staged[k].attrs["LR_FARBE"] # None
    /\ Len(fs[gdb_path].fcs[GDB_FEATURE_CLASSES.rohr].records) = Len(last.staged)
    /\ last.staged # <<>>

(***************************************************************************)
(* C10: the geodatabase at Job_<job_id> holds exactly the records appended *)
(* since it was last provisioned: provisioning again removes what an       *)
(* earlier run wrote and starts from the template.                         *)
(***************************************************************************)
SameRecords(records, features) ==
    /\ Len(records) = Len(features)
    /\ \A k \in 1..Len(records) :
          /\ records[k].geom = features[k].geom
          /\ \A name \in (DOMAIN records[k].attrs) \cap (DOMAIN features[k].attrs) :
                records[k].attrs[name] = features[k].attrs[name]

C10_OnlySinceProvisioning ==
    fs[gdb_path].exists =>
        \A fc \in FcNames : SameRecords(fs[gdb_path].fcs[fc].records, appended[fc])

C10_Witness ==
    /\ replaced
    /\ HasRecords(fs[gdb_path])
    /\ gdb_path = "out/Job_1.gdb"

(***************************************************************************)
(* C11: an export whose layer is not in the project, or is invalid,        *)
(* returns a failed outcome that says the layer was not found, and leaves  *)
(* the file system as it was: nothing is written.                          *)
(***************************************************************************)
Unlocated(layer) == layer.none \/ ~layer.valid

NotFoundReported(call) ==
    /\ ~call.outcome.success
    /\ Contains("layer not found", call.outcome.error)
    /\ "count" \notin call.outcome.keys
    /\ ~call.wrote

C11_NotFoundLeavesStore ==
    [][(last'.kind # "" /\ Unlocated(FindLayer(last'.kind, project)))
       => (fs' = fs /\ NotFoundReported(last'))]_vars

C11_Witness ==
    /\ Len(outcomes) = 2
    /\ outcomes[1].success
    /\ outcomes[1].count > 0
    /\ ~LastLayer.none
    /\ ~LastLayer.valid
    /\ LastLayer.features # <<>>
    /\ ~outcomes[2].success
    /\ HasRecords(fs[gdb_path])

(***************************************************************************)
(* C12: when the writer reports a code other than NoError, the export's    *)
(* outcome is a failure whose error is 'Write error: ' and the driver's    *)
(* message, with no count; an export called after it whose own layer,      *)
(* fields and write are sound still succeeds.                              *)
(***************************************************************************)
\* the call reaches the writer and the driver refuses the feature class
WriterRefuses(kind, layer) ==
    /\ ~Unlocated(layer)
    /\ SpecialFields(kind) \subseteq FieldNames(layer.fields)
    /\ FcName(kind) \in driver

IsWriteFailure(outcome) ==
    /\ ~outcome.success
    /\ outcome.error = "Write error: feature write failed"
    /\ outcome.keys = {"layer", "success", "error"}

AfterWriteFailure(before, call) ==
    (/\ before # <<>>
     /\ IsWriteFailure(before[Len(before)])
     /\ Sound(call.kind, FindLayer(call.kind, project)))
    => call.outcome.success

C12_WriteFailureReported ==
    [][last'.kind # "" =>
         /\ WriterRefuses(last'.kind, FindLayer(last'.kind, project))
               => (IsWriteFailure(last'.outcome) /\ last'.wrote /\ last'.code # NoError)
         /\ AfterWriteFailure(outcomes, last')]_vars

C12_Witness ==
    /\ Len(outcomes) = 2
    /\ IsWriteFailure(outcomes[1])
    /\ outcomes[2].success
    /\ outcomes[2].count > 0

(***************************************************************************)
(* C14: in the output fields of every export, the field of a mapped source *)
(* field with a ValueRelation widget is a String field of length 254       *)
(* whatever the source field's type, and the field of any other mapped     *)
(* source field has the source field's type, type name, length and         *)
(* precision.                                                              *)
(***************************************************************************)
\* the fields of the sequence with the given name
Named(fields, name) == {fields[k] : k \in {m \in 1..Len(fields) : fields[m].name = name}}

IsText254(field) == field.type = "String" /\ field.typeName = "String" /\ field.length = 254

SameType(field, original) ==
    /\ field.type = original.type
    /\ field.typeName = original.typeName
    /\ field.length = original.length
    /\ field.precision = original.precision

TypedAt(layer, fields, qgis_field_name, gdb_field_name) ==
    qgis_field_name \in FieldNames(layer.fields) =>
        /\ Cardinality(Named(fields, gdb_field_name)) = 1
        /\ \A field \in Named(fields, gdb_field_name) :
              IF layer.widget[qgis_field_name].type = "ValueRelation"
              THEN IsText254(field)
              ELSE \A original \in Named(layer.fields, qgis_field_name) :
                      SameType(field, original)

C14_CodedAsText ==
    (last.kind # "" /\ last.located) =>
        LET layer == LastLayer
        IN  \A n \in 1..Len(FieldMapping(last.kind)) :
                TypedAt(layer, last.fields, FieldMapping(last.kind)[n][1],
                        FieldMapping(last.kind)[n][2])

C14_Witness ==
    /\ last.kind = "endverbraucher"
    /\ last.outcome.success
    /\ LET layer == LastLayer
       IN  /\ layer.widget["KUNDENTYP"].type = "ValueRelation"
           /\ \A original \in Named(layer.fields, "KUNDENTYP") : original.type = "Integer"
           /\ \A field \in Named(last.fields, "KUNDENTYP") : IsText254(field)
           /\ \A field \in Named(last.fields, "ID") : field.type = "Integer" /\ field.length = 10
    /\ Named(last.fields, "KUNDENTYP") # {}
    /\ Named(last.fields, "ID") # {}

(***************************************************************************)
(* C15: a source field that the mapping table of an export lists and the   *)
(* source layer lacks gives no output field and no value, and is no error: *)
(* the export succeeds and stages every record of the job.  This is to     *)
(* hold also for ART in BAUTEN and NETZTECHNIK and for TYP in Leerrohre.   *)
(***************************************************************************)
\* the source fields of the table that the layer lacks
AbsentMapped(kind, layer) ==
    {n \in 1..Len(FieldMapping(kind)) : FieldMapping(kind)[n][1] \notin FieldNames(layer.fields)}

\* the fields the special logic reads that are not in the mapping table
UnmappedSpecial(kind) ==
    SpecialFields(kind) \ {FieldMapping(kind)[n][1] : n \in 1..Len(FieldMapping(kind))}

SkippedAt(call, gdb_field_name) ==
    /\ Named(call.fields, gdb_field_name) = {}
    /\ call.outcome.success
    /\ Len(call.staged) = Len(call.source)
    /\ \A k \in 1..Len(call.staged) : gdb_field_name \notin DOMAIN call.staged[k].attrs

C15_AbsentAttributeSkipped ==
    LET layer == LastLayer
    IN  (/\ last.kind # ""
         /\ ~Unlocated(layer)
         /\ FcName(last.kind) \notin driver
         /\ UnmappedSpecial(last.kind) \subseteq FieldNames(layer.fields))
        => \A n \in AbsentMapped(last.kind, layer) :
               SkippedAt(last, FieldMapping(last.kind)[n][2])

(***************************************************************************)
(* C16: a coded attribute whose related layer is not in the project gets   *)
(* no entry in the decode cache, the export does not fail for it, and its  *)
(* raw values are staged unchanged.  As amended: unchanged unless the      *)
(* attribute is the target of an override rule of the export and the raw   *)
(* value is itself 'Sonstige' or 'Sonstiges'.                              *)
(***************************************************************************)
Unresolved(layer, field) ==
    /\ field \in FieldNames(layer.fields)
    /\ layer.widget[field].type = "ValueRelation"
    /\ ~HasTable(layer, field)

OmittedFromCache(layer, cache) ==
    /\ cache.ok
    /\ \A field \in FieldNames(layer.fields) :
          Unresolved(layer, field) => field \notin DOMAIN cache.val

RawAt(kind, layer, src, out, n) ==
    Unresolved(layer, FieldMapping(kind)[n][1])
    => out.attrs[FieldMapping(kind)[n][2]] = src.attrs[FieldMapping(kind)[n][1]]

RawOrOverriddenAt(kind, layer, src, out, n) ==
    (/\ Unresolved(layer, FieldMapping(kind)[n][1])
     /\ ~Overridable(kind, FieldMapping(kind)[n][2], src.attrs[FieldMapping(kind)[n][1]]))
    => out.attrs[FieldMapping(kind)[n][2]] = src.attrs[FieldMapping(kind)[n][1]]

NotFailing(layer, call) ==
    /\ OmittedFromCache(layer, build_lookup_cache(layer, project))
    /\ Sound(call.kind, layer) => (call.outcome.success /\ Len(call.staged) = Len(call.source))

\* the claim as written
C16_UnresolvedPassThrough ==
    (last.kind # "" /\ last.located) =>
        LET layer == LastLayer
        IN  /\ NotFailing(layer, last)
            /\ \A k \in StagedIndexes : \A n \in MappingIndexes(last.kind, last.source[k]) :
                   RawAt(last.kind, layer, last.source[k], last.staged[k], n)

\* the claim as amended
C16_UnresolvedPassThroughUnlessOverridden ==
    (last.kind # "" /\ last.located) =>
        LET layer == LastLayer
        IN  /\ NotFailing(layer, last)
            /\ \A k \in StagedIndexes : \A n \in MappingIndexes(last.kind, last.source[k]) :
                   RawOrOverriddenAt(last.kind, layer, last.source[k], last.staged[k], n)

C16_Witness ==
    /\ last.kind = "leerrohre"
    /\ Unresolved(LastLayer, "TYP")
    /\ Unresolved(LastLayer, "LR_HERST")
    /\ last.outcome.success
    /\ last.outcome.count = Len(last.source)
    /\ \E k \in StagedIndexes :
          /\ last.source[k].attrs["TYP"] = IntV(1)
          /\ last.staged[k].attrs["TYP"] = IntV(1)
          /\ last.source[k].attrs["LR_HERST"] = StrV("3")
          /\ last.staged[k].attrs["LR_HERST"] = StrV("3")

(***************************************************************************)
(* C17: the decode table of a coded attribute maps the string form of each *)
(* key of the related layer to that row's value; where two rows have keys  *)
(* of the same string form the later row wins; the table has exactly the   *)
(* string forms of the keys that occur.                                    *)
(***************************************************************************)
\* the rows of the related layer of a coded field
RelatedRows(layer, field) ==
    project[CHOOSE k \in 1..Len(project) :
               layer.widget[field].config.Layer \in {project[k].id, project[k].name}].features

KeyOf(layer, field, row) == PyStr(row.attrs[layer.widget[field].config.Key])

IsDecodeTable(layer, field, lookup) ==
    LET rows == RelatedRows(layer, field)
    IN  /\ DOMAIN lookup = {KeyOf(layer, field, rows[k]) : k \in 1..Len(rows)}
        /\ \A k \in 1..Len(rows) :
              (\A m \in (k + 1)..Len(rows) :
                   KeyOf(layer, field, rows[m]) # KeyOf(layer, field, rows[k]))
              => lookup[KeyOf(layer, field, rows[k])]
                     = rows[k].attrs[layer.widget[field].config.Value]

DecodeTables(layer, cache) ==
    /\ cache.ok
    /\ \A field \in FieldNames(layer.fields) :
          HasTable(layer, field) => /\ field \in DOMAIN cache.val
                                    /\ IsDecodeTable(layer, field, cache.val[field])

C17_DecodeTable ==
    (last.kind # "" /\ last.located) =>
        LET layer == LastLayer IN DecodeTables(layer, build_lookup_cache(layer, project))

C17_Witness ==
    /\ last.kind = "punkt"
    /\ last.outcome.success
    /\ HasTable(LastLayer, "ART")
    /\ LET lookup == build_lookup_cache(LastLayer, project).val["ART"]
       IN  /\ lookup["1"] = StrV("Standard")
           /\ lookup["2"] = StrV("Sonstige")
           /\ Cardinality(DOMAIN lookup) = 6

(***************************************************************************)
(* C18: the staged records are handed to the append in the order in which  *)
(* the job's records were read from the source layer, one staged record    *)
(* per source record.                                                      *)
(***************************************************************************)
\* the records of the layer that carry the job's id, in the layer's order
JobRecords(layer) ==
    SelectSeq(layer.features,
              LAMBDA f : "job_id" \in DOMAIN f.attrs /\ f.attrs["job_id"] = IntV(job_id))

\* the second sequence follows the first, record by record
SameOrder(source, staged) ==
    /\ Len(staged) = Len(source)
    /\ \A k \in 1..Len(source) : staged[k].geom = source[k].geom

\* the last records of the feature class are the staged ones, in their order
AppendedInOrder(records, staged) ==
    /\ Len(records) >= Len(staged)
    /\ \A k \in 1..Len(staged) :
          records[Len(records) - Len(staged) + k].geom = staged[k].geom

C18_ReadOrderKept ==
    (last.kind # "" /\ last.wrote) =>
        /\ last.source = JobRecords(LastLayer)
        /\ SameOrder(last.source, last.staged)
        /\ last.outcome.success
           => AppendedInOrder(fs[gdb_path].fcs[FcName(last.kind)].records, last.staged)

C18_Witness ==
    /\ last.kind = "bauten"
    /\ last.outcome.success
    /\ Len(last.staged) >= 3
    /\ last.staged[1].geom # last.staged[2].geom
    /\ last.staged[2].geom # last.staged[3].geom
    /\ Len(outcomes) = 2
    /\ outcomes[1].success
    /\ outcomes[1].count > 0

(***************************************************************************)
(* C19: the geodatabase is append-only across exports.  An export removes  *)
(* and changes no record of any feature class; a successful export adds    *)
(* its staged records, all of them and in their order, to the feature      *)
(* class it is routed to (the six point exports to COM_DOKU_PUNKT,         *)
(* Leerrohre to COM_DOKU_ROHR, Verbindungen to COM_DOKU_KABEL) and to no   *)
(* other; records are not de-duplicated, so the same export run twice      *)
(* leaves its rows twice.                                                  *)
(***************************************************************************)
Routed(kind) ==
    CASE kind \in {"punkt", "rohrmuffe", "messpunkt", "bauten", "netztechnik",
                   "endverbraucher"} -> "COM_DOKU_PUNKT"
      [] kind = "leerrohre" -> "COM_DOKU_ROHR"
      [] kind = "verbindungen" -> "COM_DOKU_KABEL"

\* the records before are the first records after, unchanged
KeepsRecords(before, after) ==
    /\ Len(after) >= Len(before)
    /\ \A k \in 1..Len(before) : after[k] = before[k]

\* the records after are the records before and then one per staged record
GrowsBy(before, after, staged) ==
    /\ Len(after) = Len(before) + Len(staged)
    /\ \A k \in 1..Len(staged) : after[Len(before) + k].geom = staged[k].geom

AppendOnly(before, after, call) ==
    \A fc \in DOMAIN before.fcs :
        /\ fc \in DOMAIN after.fcs
        /\ KeepsRecords(before.fcs[fc].records, after.fcs[fc].records)
        /\ IF call.outcome.success /\ fc = Routed(call.kind)
           THEN GrowsBy(before.fcs[fc].records, after.fcs[fc].records, call.staged)
           ELSE after.fcs[fc].records = before.fcs[fc].records

C19_AppendOnly ==
    [][last'.kind # "" => AppendOnly(fs[gdb_path], fs'[gdb_path], last')]_vars

C19_Witness ==
    /\ last.kind = "leerrohre"
    /\ Len(outcomes) = 2
    /\ outcomes[1] = outcomes[2]
    /\ outcomes[1].success
    /\ outcomes[1].count > 0
    /\ LET records == fs[gdb_path].fcs["COM_DOKU_ROHR"].records
           count == outcomes[1].count
       IN  /\ Len(records) = 2 * count
           /\ \A k \in 1..count : records[count + k] = records[k]
    /\ fs[gdb_path].fcs["COM_DOKU_PUNKT"].records = <<>>

(***************************************************************************)
(* C20: an override rule replaces its target only where the decoded value  *)
(* is exactly 'Sonstige' or 'Sonstiges'.  For any other value, one that    *)
(* differs in case ('sonstige'), a null, or a raw code that was not        *)
(* decoded, the target of the staged record has the base-mapped value.     *)
(***************************************************************************)
\* the rules whose target is the attribute the trigger is mapped to
MappedRulesOf(kind, layer, src) ==
    {rule \in RulesOf(kind, layer, src) :
        \E n \in 1..Len(FieldMapping(kind)) :
            FieldMapping(kind)[n] = <<rule.trigger, rule.target>>}

IsMarker(value) == value.t = "str" /\ value.s \in {"Sonstige", "Sonstiges"}

KeepsBaseValue(layer, src, out, rule) ==
    ~IsMarker(TriggerValue(layer, src, rule))
    => out.attrs[rule.target] = TriggerValue(layer, src, rule)

C20_ExactMatchOnly ==
    LET layer == LastLayer
    IN  \A k \in StagedIndexes :
            \A rule \in MappedRulesOf(last.kind, layer, last.source[k]) :
                KeepsBaseValue(layer, last.source[k], last.staged[k], rule)

C20_Witness ==
    /\ last.kind = "bauten"
    /\ last.outcome.success
    /\ HasTable(LastLayer, "ART")
    /\ \E k \in StagedIndexes :
          /\ last.source[k].attrs["ART"] = StrV("6")
          /\ Truthy(last.source[k].attrs["ART_SONST"])
          /\ last.staged[k].attrs["ART"] = StrV("sonstige")
    /\ \E k \in StagedIndexes :
          /\ last.source[k].attrs["ART"] = StrV("9")
          /\ Truthy(last.source[k].attrs["ART_SONST"])
          /\ last.staged[k].attrs["ART"] = StrV("9")

(***************************************************************************)
(* C13: an export passes through the phases Located, CacheBuilt, Mapped,   *)
(* RulesApplied, Appended, Reported in this order, the only other          *)
(* transition being the one from any phase to Reported with a failure; no  *)
(* phase is repeated, the append is issued at most once, and every export  *)
(* that is called reaches Reported.  As amended: Mapped and RulesApplied   *)
(* are passed once per record of the job, in turn, and in Leerrohre each   *)
(* record's LR_FARBE is derived before the record is mapped.               *)
(***************************************************************************)
PhaseOrder == <<"Located", "CacheBuilt", "Mapped", "RulesApplied", "Appended", "Reported">>

Rank(phase) ==
    IF \E n \in 1..Len(PhaseOrder) : PhaseOrder[n] = phase
    THEN CHOOSE n \in 1..Len(PhaseOrder) : PhaseOrder[n] = phase
    ELSE 0

Count(trace, phase) == Cardinality({n \in 1..Len(trace) : trace[n] = phase})

\* a step to Reported that is not the one from Appended reports a failure
ShortCircuit(r, n) ==
    /\ r.trace[n] = "Reported"
    /\ ~r.outcome.success

\* the claim as written: each phase is followed by the next one of the
\* order (the two record phases have nothing to do where the job has no
\* record) or by Reported with a failure
FixedOrder(r) ==
    /\ \A n \in 1..Len(r.trace) : Rank(r.trace[n]) > 0
    /\ \A n \in 1..Len(r.trace) :
          \/ Rank(r.trace[n]) = (IF n = 1 THEN 0 ELSE Rank(r.trace[n - 1])) + 1
          \/ n > 1 /\ r.trace[n - 1] = "CacheBuilt" /\ r.trace[n] = "Appended"
                   /\ r.source = <<>>
          \/ ShortCircuit(r, n)
    /\ \A n \in 1..Len(r.trace) : Count(r.trace, r.trace[n]) = 1

\* the first phase of a record's turn
RecordStart(kind) == IF kind = "leerrohre" THEN "LrFarbeDerived" ELSE "Mapped"

\* the phases that may follow a phase, done of the job's records being staged
Followers(r, phase, done) ==
    CASE phase = "" -> {"Located"}
      [] phase = "Located" -> {"CacheBuilt"}
      [] phase \in {"CacheBuilt", "RulesApplied"} ->
            IF done < Len(r.source) THEN {RecordStart(r.kind)} ELSE {"Appended"}
      [] phase = "LrFarbeDerived" -> {"Mapped"}
      [] phase = "Mapped" -> {"RulesApplied"}
      [] phase = "Appended" -> {"Reported"}
      [] OTHER -> {}

\* the claim as amended
OrderPerRecord(r) ==
    /\ \A n \in 1..Len(r.trace) :
          \/ r.trace[n] \in Followers(r, IF n = 1 THEN "" ELSE r.trace[n - 1],
                                       Count(SubSeq(r.trace, 1, n - 1), "RulesApplied"))
          \/ ShortCircuit(r, n) /\ (n = 1 \/ r.trace[n - 1] # "Reported")
    /\ \A phase \in {"Located", "CacheBuilt", "Appended", "Reported"} :
          Count(r.trace, phase) <= 1
    /\ Count(r.trace, "Appended") = 1
       => /\ Count(r.trace, "Mapped") = Len(r.source)
          /\ Count(r.trace, "RulesApplied") = Len(r.source)
    /\ r.pc \notin {"idle", "cache", "fields"} => Count(r.trace, "Mapped") <= Len(r.source)

Called == run.pc # "idle"
Reported == run.pc = "idle" /\ run.trace # <<>> /\ run.trace[Len(run.trace)] = "Reported"

C13_FixedOrder == []FixedOrder(run) /\ (Called ~> Reported)

C13_OrderPerRecord == []OrderPerRecord(run) /\ (Called ~> Reported)

C13_Witness ==
    /\ Reported
    /\ run.kind = "leerrohre"
    /\ run.outcome.success
    /\ run.outcome.count = 2
    /\ run.trace = <<"Located", "CacheBuilt", "LrFarbeDerived", "Mapped", "RulesApplied",
                     "LrFarbeDerived", "Mapped", "RulesApplied", "Appended", "Reported">>

(***************************************************************************)
(* C21: a successful outcome reports as its count the number of records    *)
(* the job-scoped read of the source layer yielded, which is also the      *)
(* number of records the export added to its feature class; a failed       *)
(* outcome has an error and no count.                                      *)
(***************************************************************************)
\* the records the call added to the feature class
Added(before, after, fc) == Len(after.fcs[fc].records) - Len(before.fcs[fc].records)

CountIsExact(before, after, call) ==
    call.outcome.success =>
        /\ "count" \in call.outcome.keys
        /\ call.outcome.count = Len(JobRecords(FindLayer(call.kind, project)))
        /\ call.outcome.count = Added(before, after, Routed(call.kind))

ErrorWithoutCount(outcome) ==
    ~outcome.success =>
        /\ "error" \in outcome.keys
        /\ outcome.error # ""
        /\ "count" \notin outcome.keys

C21_CountIsExact ==
    [][last'.kind # "" => /\ CountIsExact(fs[gdb_path], fs'[gdb_path], last')
                          /\ ErrorWithoutCount(last'.outcome)]_vars

C21_Witness ==
    /\ Len(outcomes) = 2
    /\ last.kind = "bauten"
    /\ outcomes[1].success
    /\ outcomes[1].count > 0
    /\ outcomes[2].success
    /\ outcomes[2].count = Len(last.source)
    /\ outcomes[2].count > 0
    /\ Len(fs[gdb_path].fcs["COM_DOKU_PUNKT"].records) = outcomes[1].count + outcomes[2].count

(***************************************************************************)
(* C22: in the Leerrohre export, a decoded TYP that contains 'schutzrohr'  *)
(* or 'rohrverband' takes LR_FARBE from M_FARB / M_FARB_SON, also where it *)
(* contains 'einzelrohr' as well; ER_FARB / ER_FARB_SON are read only      *)
(* where TYP contains 'einzelrohr' and neither of the other two, so no     *)
(* record has both pairs read: a pair that is not read may be missing      *)
(* from the feature without an error.                                      *)
(***************************************************************************)
\* the text of the TYP of a feature: the label of its code, or the value itself
TypText(feature) ==
    LET typ == feature.attrs["TYP"]
        rows == {k \in 1..Len(TypRows) : PyStr(TypRows[k][1]) = PyStr(typ)}
    IN  IF typ = None THEN ""
        ELSE Lower(PyStr(IF rows = {} THEN typ ELSE TypRows[CHOOSE k \in rows : TRUE][2]))

HasFirstKeyword(feature) ==
    Contains("schutzrohr", TypText(feature)) \/ Contains("rohrverband", TypText(feature))

HasSecondKeyword(feature) == Contains("einzelrohr", TypText(feature))

\* what reading this pair alone gives: the colour, the free text where the
\* colour is Sonstige/Sonstiges, or the KeyError of the field that is missing
FromPair(feature, farb, farb_son) ==
    IF farb \notin DOMAIN feature.attrs THEN Raise(KeyError(farb))
    ELSE IF feature.attrs[farb] \in {StrV("Sonstige"), StrV("Sonstiges")}
    THEN (IF farb_son \notin DOMAIN feature.attrs THEN Raise(KeyError(farb_son))
          ELSE Return(feature.attrs[farb_son]))
    ELSE Return(feature.attrs[farb])

OnePairRead(feature, result) ==
    /\ HasFirstKeyword(feature) => result = FromPair(feature, "M_FARB", "M_FARB_SON")
    /\ (HasSecondKeyword(feature) /\ ~HasFirstKeyword(feature))
       => result = FromPair(feature, "ER_FARB", "ER_FARB_SON")
    /\ (~HasSecondKeyword(feature) /\ ~HasFirstKeyword(feature)) => result = Return(None)

C22_FirstPairWins == probe.applied => OnePairRead(probe.feature, probe.result)

C22_Witness ==
    /\ probe.applied
    /\ probe.feature.attrs["TYP"] = IntV(5)
    /\ HasFirstKeyword(probe.feature)
    /\ HasSecondKeyword(probe.feature)
    /\ DOMAIN probe.feature.attrs = {"TYP", "M_FARB", "M_FARB_SON"}
    /\ probe.feature.attrs["M_FARB"] = StrV("Sonstige")
    /\ probe.result = Return(StrV("M_FARB_SON frei"))

====
